---- MODULE Spec2Model ----
(***************************************************************************)
(* Deployment orchestration of kueue-dev: the conflict-retry bundle        *)
(* installer (install/olm.rs), the marker-checking dependency installers   *)
(* (install/*.rs) and the deploy_kind sequencer (commands/deploy.rs).      *)
(*                                                                         *)
(* External commands (kubectl, operator-sdk, HTTP downloads) are the       *)
(* environment: their exit status and output are chosen with \E from the   *)
(* outcomes the code distinguishes.                                        *)
(***************************************************************************)
EXTENDS Integers, Sequences, FiniteSets, TLC

VARIABLES
    \* ---- install_bundle / run_bundle_with_retry / cleanup_and_retry ----
    ib_pc,            \* position inside install_bundle and its callees
    catalogPresent,   \* cluster: catalogsource kueue-operator-catalog exists
    catalog_check,    \* result of the pre-check kubectl get ("none" before it ran)
    runBundleCalls,   \* operator-sdk run bundle invocations of this call
    cleanupCalls,     \* operator-sdk cleanup invocations of this call
    firstOut,         \* output of the first run-bundle command (NoOutput if none)
    cleanupOut,       \* output of the cleanup command
    retryOut,         \* output of the retry run-bundle command
    ib_warned,        \* log_warn!("Cleanup had issues ...") was emitted
    ib_result,        \* what install_bundle returned (NoResult while running)
    ib_callNo,        \* how many install_bundle calls were started
    ib_prev,          \* previous call's returned result and cleanup status
    \* ---- dependency installers (install/*.rs) ----
    resources,        \* cluster: the resources that exist
    inst,             \* installer being run ("none" before the first call)
    inst_pc,          \* index of the next step of the installer; 0 when returned
    inst_marker,      \* outcome of this call's marker check
    inst_log,         \* collaborator calls made by this call, in order
    inst_result,      \* what the installer returned (NoResult while running)
    inst_callNo,      \* how many installer calls were started
    inst_prev,        \* installer of the previous call, whether it applied, and
                      \* whether it saw every readiness condition hold
    \* ---- deploy_kind (commands/deploy.rs) ----
    use_bundle,       \* options.use_bundle
    skip_kueue_cr,    \* options.skip_kueue_cr
    dk_pc,            \* index of the next step of deploy_kind; 0 when returned
    dk_log,           \* steps the main thread has executed, with their outcome
    dk_result,        \* what deploy_kind returned (NoResult while running)
    threads,          \* worker thread -> "unspawned", "running", "ok", "err", "panic"
    thread_result,    \* worker thread -> the Result its closure returned
    joined,           \* worker threads whose JoinHandle was joined
    \* ---- build_parallel (commands/build.rs) ----
    total,            \* components.len()
    bp_pc,            \* main thread: "idle", "spawn", "join", "unwinding", "collect", "done"
    bp_idx,           \* index of the component the spawn or join loop is at
    bp_result,        \* what build_parallel returned (NoResult while running)
    worker,           \* component index -> position of its worker thread
    outcome,          \* component index -> how its build_and_push ended
    count_read,       \* component index -> counter value its worker read
    built,            \* components whose image was built
    pushed,           \* components whose image was pushed
    errors,           \* the shared error list
    completed,        \* the shared completion counter
    errors_lock,      \* holder of the error-list mutex (0: free)
    completed_lock,   \* holder of the counter mutex (0: free)
    progress,         \* the counts passed to send_progress_update, in order
    \* ---- create_kueue_cr, wait_for_deployment_to_exist (install/operator.rs) ----
    cr_entry,         \* the function that was called
    timeout_secs,     \* budget of wait_for_deployment_to_exist, in seconds
    cr_pc,            \* "idle", "apply", "get", "check", "sleep", "wait_available",
                      \* "blocked" (in a kubectl get that never exits), "done"
    cr_log,           \* calls create_kueue_cr has made, in order
    cr_result,        \* what the called function returned (NoResult while running)
    elapsed,          \* start.elapsed(), in seconds
    dep_exists,       \* the kueue-controller-manager Deployment exists
    queries,          \* kubectl get calls made by wait_for_deployment_to_exist
    last_get,         \* outcome of the latest kubectl get
    \* ---- cluster create / delete (commands/cluster.rs, k8s/kind.rs, deploy_kind_full) ----
    cl_entry,         \* the function that was called
    cni,              \* the --cni argument: "calico", "default" or an unknown word
    kubeconfig,       \* the kubeconfig argument of create_with_kubeconfig is Some(path)
    force,            \* the --force flag of cluster delete
    cluster_present,  \* kind: the named cluster exists
    kubeconfig_file,  \* the kubeconfig file was written by this call
    cl_pc,            \* position inside the called function and its callees
    cl_log,           \* collaborator calls made, in order, with outcome and answer
    cwk_return,       \* what create_with_kubeconfig returned ("none" while it has not)
    kind_config,      \* the config generate_config returned (<<>> before it was called)
    cl_result,        \* what the called function returned (NoResult while running)
    \* ---- run_tests_with_retry (commands/test.rs) ----
    focus,            \* focus is Some(pattern)
    label_filter,     \* label_filter is Some(filter)
    rt_kubeconfig,    \* kubeconfig is Some(path)
    ginkgo_bin,       \* bin/ginkgo exists
    rt_pc,            \* "idle", "start", "ensure_ginkgo", "execute", "wait_for_enter", "done"
    rt_runs,          \* outcomes of the execute_ginkgo_tests calls, in order
    rt_prompts,       \* wait_for_enter calls made
    rt_reads,         \* what stdin gave each wait_for_enter call, in order
    rt_result,        \* what run_tests_with_retry returned (NoResult while running)
    \* ---- uninstall_operator_if_exists (install/olm.rs) ----
    op_deployment,    \* cluster: deployment openshift-kueue-operator exists
    op_catalog,       \* cluster: catalogsource kueue-operator-catalog exists
    sdk_on_path,      \* operator-sdk is found on PATH
    un_pc,            \* "idle", "detect", "which", "cleanup", "settle", "check", "sleep",
                      \* "delete_namespace", "delete_kueue", "done"
    un_detected,      \* what is_operator_installed returned ("none" before it ran)
    un_cleanup,       \* how operator-sdk cleanup ended ("notrun" if it was not run)
    un_i,             \* the loop variable i of the verification loop
    un_checks,        \* outcomes of the kubectl get deployment calls of the loop
    un_deletes,       \* the kubectl delete calls made, in order, with their outcome
    un_result,        \* what uninstall_operator_if_exists returned
    \* ---- load_images_to_kind / ensure_image ----
    cfg_missing,      \* the first image name the configuration lacks ("none" if none)
    pull_if_missing,  \* the pull_if_missing argument
    img_local,        \* machine: the images present in the local registry
    img_pc,           \* "idle", "config", "exists", "pull", "load", "done"
    img_i,            \* position in the images vector of the running loop
    img_ensured,      \* the images ensure_image returned Ok for, in order
    img_loaded,       \* the images kind load returned success for, in order
    img_log,          \* the commands run, in order, with their outcome
    img_result        \* what load_images_to_kind returned

bundleVars == <<ib_pc, catalogPresent, catalog_check, runBundleCalls, cleanupCalls,
                firstOut, cleanupOut, retryOut, ib_warned, ib_result, ib_callNo, ib_prev>>

installVars == <<resources, inst, inst_pc, inst_marker, inst_log, inst_result,
                 inst_callNo, inst_prev>>

deployVars == <<use_bundle, skip_kueue_cr, dk_pc, dk_log, dk_result, threads,
                thread_result, joined>>

buildVars == <<total, bp_pc, bp_idx, bp_result, worker, outcome, count_read, built,
               pushed, errors, completed, errors_lock, completed_lock, progress>>

crVars == <<cr_entry, timeout_secs, cr_pc, cr_log, cr_result, elapsed, dep_exists,
            queries, last_get>>

clusterVars == <<cl_entry, cni, kubeconfig, force, cluster_present, kubeconfig_file,
                 cl_pc, cl_log, cwk_return, kind_config, cl_result>>

testVars == <<focus, label_filter, rt_kubeconfig, ginkgo_bin, rt_pc, rt_runs,
              rt_prompts, rt_reads, rt_result>>

uninstallVars == <<op_deployment, op_catalog, sdk_on_path, un_pc, un_detected,
                   un_cleanup, un_i, un_checks, un_deletes, un_result>>

imagesVars == <<cfg_missing, pull_if_missing, img_local, img_pc, img_i, img_ensured,
                img_loaded, img_log, img_result>>

vars == <<bundleVars, installVars, deployVars, buildVars, crVars, clusterVars, testVars,
          uninstallVars, imagesVars>>

\* What the actions of one component leave alone.
notBundleVars == <<installVars, deployVars, buildVars, crVars, clusterVars, testVars, uninstallVars, imagesVars>>
notInstallVars == <<bundleVars, deployVars, buildVars, crVars, clusterVars, testVars, uninstallVars, imagesVars>>
notDeployVars == <<bundleVars, installVars, buildVars, crVars, clusterVars, testVars, uninstallVars, imagesVars>>
notBuildVars == <<bundleVars, installVars, deployVars, crVars, clusterVars, testVars, uninstallVars, imagesVars>>
notCrVars == <<bundleVars, installVars, deployVars, buildVars, clusterVars, testVars, uninstallVars, imagesVars>>
notClusterVars == <<bundleVars, installVars, deployVars, buildVars, crVars, testVars, uninstallVars, imagesVars>>
notTestVars == <<bundleVars, installVars, deployVars, buildVars, crVars, clusterVars, uninstallVars, imagesVars>>
notUninstallVars == <<bundleVars, installVars, deployVars, buildVars, crVars, clusterVars, testVars, imagesVars>>
notImagesVars == <<bundleVars, installVars, deployVars, buildVars, crVars, clusterVars, testVars, uninstallVars>>

-----------------------------------------------------------------------------
(* Text, command outputs and results                                         *)

\* Number of sequential install_bundle calls explored on one cluster.
MaxBundleInstalls == 2

\* Texts a command may print, as sequences of words.
Texts == { <<"denied">>, <<"already", "exists">>, <<"exists", "already">> }

\* str::contains("already exists"): the two words occur adjacently, in order.
ContainsAlreadyExists(text) ==
    \E i \in 1..(Len(text) - 1) : text[i] = "already" /\ text[i + 1] = "exists"

\* A command that was not run (yet) in this call.
NoOutput == [status |-> "notrun", stdout |-> <<>>, stderr |-> <<>>]

\* Command::output(): Err when the command could not be executed ("spawnfail"),
\* otherwise the exit status with the captured stdout and stderr.
SpawnFailed == [status |-> "spawnfail", stdout |-> <<>>, stderr |-> <<>>]

Outputs ==
    {SpawnFailed} \cup
    [status : {"success", "failure"}, stdout : Texts, stderr : Texts]

\* The command was executed and exited.
Spawned(out) == out.status \in {"success", "failure"}

\* output.status.success()
Success(out) == out.status = "success"

\* The conflict signature test of run_bundle_with_retry.
ConflictMatchedStderrOnly(out) == ContainsAlreadyExists(out.stderr)

ConflictMatched(out) ==
    ContainsAlreadyExists(out.stderr) \/ ContainsAlreadyExists(out.stdout)

NoResult == [kind |-> "none", msg |-> <<>>]
OkResult == [kind |-> "ok", msg |-> <<>>]
Err(msg) == [kind |-> "err", msg |-> msg]

\* kubectl get: "found" only when the resource exists, "notfound" only when
\* it does not, "cmdfail" when the query itself failed.
GetResults(present) == (IF present THEN {"found"} ELSE {"notfound"}) \cup {"cmdfail"}

\* Result::is_ok() of run_kubectl_output for a get.
IsOk(getResult) == getResult = "found"

-----------------------------------------------------------------------------
(* install_bundle, run_bundle_with_retry, cleanup_and_retry (install/olm.rs) *)

\* What operator-sdk run bundle leaves behind: a successful run creates the
\* catalog source, a failed run may have created it before failing.
CatalogAfterRun(out, before) ==
    IF ~Spawned(out) THEN {before}
    ELSE IF Success(out) THEN {TRUE}
    ELSE {before, TRUE}

\* What operator-sdk cleanup leaves behind.
CatalogAfterCleanup(out, before) ==
    IF Success(out) THEN {FALSE} ELSE {before}

NoPrev == [result |-> NoResult, cleanupRan |-> FALSE, cleanupSuccess |-> FALSE,
           retryFailed |-> FALSE]

\* The call that just returned, as seen by its caller.
Returned ==
    [result |-> ib_result,
     cleanupRan |-> Spawned(cleanupOut),
     cleanupSuccess |-> Success(cleanupOut),
     retryFailed |-> retryOut.status = "failure"]

\* install_bundle entry: apply the namespace, then call run_bundle_with_retry.
install_bundle_begin ==
    /\ UNCHANGED notBundleVars
    /\ ib_pc \in {"idle", "done"}
    /\ ib_callNo < MaxBundleInstalls
    /\ ib_callNo' = ib_callNo + 1
    /\ ib_prev' = IF ib_pc = "done" THEN Returned ELSE ib_prev
    /\ catalog_check' = "none"
    /\ runBundleCalls' = 0
    /\ cleanupCalls' = 0
    /\ firstOut' = NoOutput
    /\ cleanupOut' = NoOutput
    /\ retryOut' = NoOutput
    /\ ib_warned' = FALSE
    /\ \E applyOk \in BOOLEAN :
          IF applyOk
          THEN ib_pc' = "catalog_check" /\ ib_result' = NoResult
          ELSE ib_pc' = "done" /\ ib_result' = Err(<<"kubectl apply failed">>)
    /\ UNCHANGED catalogPresent

\* run_bundle_with_retry after the pre-check: a catalog source that is found
\* sends it straight to cleanup_and_retry, skipping the first invocation.
CatalogCheckNextPcIgnored(r) == "run_bundle"

CatalogCheckNextPc(r) == IF IsOk(r) THEN "cleanup" ELSE "run_bundle"

\* run_bundle_with_retry, pre-check: kubectl get catalogsource.
run_bundle_catalog_check ==
    /\ UNCHANGED notBundleVars
    /\ ib_pc = "catalog_check"
    /\ \E r \in GetResults(catalogPresent) :
          /\ catalog_check' = r
          /\ ib_pc' = CatalogCheckNextPc(r)
    /\ UNCHANGED <<catalogPresent, runBundleCalls, cleanupCalls, firstOut, cleanupOut,
                   retryOut, ib_warned, ib_result, ib_callNo, ib_prev>>

\* Where run_bundle_with_retry goes after the first command's output.
FirstAttemptNextPcRetryAny(out) ==
    IF ~Spawned(out) THEN "done"
    ELSE IF Success(out) THEN "show_status"
    ELSE "cleanup"

FirstAttemptNextPc(out) ==
    IF ~Spawned(out) THEN "done"
    ELSE IF Success(out) THEN "show_status"
    ELSE IF ConflictMatched(out) THEN "cleanup"
    ELSE "done"

\* What run_bundle_with_retry returns right after the first command, if it returns.
FirstAttemptResult(out) ==
    IF ~Spawned(out) THEN Err(<<"Failed to run operator-sdk">>)
    ELSE IF Success(out) THEN NoResult
    ELSE IF ConflictMatched(out) THEN NoResult
    ELSE Err(<<"operator-sdk run bundle failed:", out.stdout, out.stderr>>)

\* run_bundle_with_retry, first operator-sdk run bundle.
run_bundle_first_attempt ==
    /\ UNCHANGED notBundleVars
    /\ ib_pc = "run_bundle"
    /\ \E out \in Outputs :
          /\ firstOut' = out
          /\ runBundleCalls' = runBundleCalls + 1
          /\ catalogPresent' \in CatalogAfterRun(out, catalogPresent)
          /\ ib_pc' = FirstAttemptNextPc(out)
          /\ ib_result' = FirstAttemptResult(out)
    /\ UNCHANGED <<catalog_check, cleanupCalls, cleanupOut, retryOut, ib_warned,
                   ib_callNo, ib_prev>>

\* cleanup_and_retry, the cleanup command: only a command that could not be
\* executed returns; a non-zero exit is logged and the retry follows.
CleanupNextPcOnSuccess(out) == IF Success(out) THEN "settle" ELSE "done"

CleanupNextPc(out) == IF Spawned(out) THEN "settle" ELSE "done"

cleanup_and_retry_cleanup ==
    /\ UNCHANGED notBundleVars
    /\ ib_pc = "cleanup"
    /\ \E out \in Outputs :
          /\ cleanupOut' = out
          /\ cleanupCalls' = cleanupCalls + 1
          /\ catalogPresent' \in CatalogAfterCleanup(out, catalogPresent)
          /\ ib_warned' = ((out.status = "failure"))
          /\ ib_pc' = CleanupNextPc(out)
          /\ ib_result' = IF Spawned(out) THEN ib_result
                          ELSE Err(<<"Failed to run operator-sdk cleanup">>)
    /\ UNCHANGED <<catalog_check, runBundleCalls, firstOut, retryOut, ib_callNo, ib_prev>>

\* cleanup_and_retry, the 3 s sleep between cleanup and retry.
cleanup_and_retry_settle ==
    /\ UNCHANGED notBundleVars
    /\ ib_pc = "settle"
    /\ ib_pc' = "retry"
    /\ UNCHANGED <<catalogPresent, catalog_check, runBundleCalls, cleanupCalls, firstOut,
                   cleanupOut, retryOut, ib_warned, ib_result, ib_callNo, ib_prev>>

\* The error cleanup_and_retry builds when the retry exits non-zero.
RetryError(retry, cleanup) ==
    Err(<<"operator-sdk run bundle failed after cleanup:", retry.stdout, retry.stderr>>)

\* cleanup_and_retry, the retry command: its failure is returned, never retried.
RetryNextPcLoop(out) ==
    IF Success(out) THEN "show_status"
    ELSE IF Spawned(out) /\ ConflictMatched(out) THEN "cleanup"
    ELSE "done"

RetryNextPc(out) == IF Success(out) THEN "show_status" ELSE "done"

cleanup_and_retry_retry ==
    /\ UNCHANGED notBundleVars
    /\ ib_pc = "retry"
    /\ \E out \in Outputs :
          /\ retryOut' = out
          /\ runBundleCalls' = runBundleCalls + 1
          /\ catalogPresent' \in CatalogAfterRun(out, catalogPresent)
          /\ ib_pc' = RetryNextPc(out)
          /\ ib_result' = IF ~Spawned(out) THEN Err(<<"Failed to retry operator-sdk">>)
                          ELSE IF Success(out) THEN NoResult
                          ELSE RetryError(out, cleanupOut)
    /\ UNCHANGED <<catalog_check, cleanupCalls, firstOut, cleanupOut, ib_warned,
                   ib_callNo, ib_prev>>

\* install_bundle after run_bundle_with_retry returned Ok(true): show the
\* deployments (result ignored) and return Ok.
install_bundle_finish ==
    /\ UNCHANGED notBundleVars
    /\ ib_pc = "show_status"
    /\ ib_pc' = "done"
    /\ ib_result' = OkResult
    /\ UNCHANGED <<catalogPresent, catalog_check, runBundleCalls, cleanupCalls, firstOut,
                   cleanupOut, retryOut, ib_warned, ib_callNo, ib_prev>>

-----------------------------------------------------------------------------
(* The dependency installers (install/*.rs) as step lists                    *)

\* Number of sequential installer calls explored on one cluster.
MaxInstallCalls == 2

\* if <kubectl get ...>.is_ok() { return Ok(()) }: the marker check. `gets` are
\* queried in order and the check stops at the first one that is not found.
MarkerStep(gets) ==
    [op |-> "marker", res |-> "", gets |-> gets, mode |-> "", creates |-> {},
     policy |-> "return_ok", ctx |-> ""]

\* reqwest get / tempfile write / kubectl get nodes: an Err is returned with `?`.
FallibleStep(op, ctx) ==
    [op |-> op, res |-> "", gets |-> <<>>, mode |-> "", creates |-> {},
     policy |-> "propagate", ctx |-> ctx]

\* kubectl apply / apply --server-side / create of a manifest that creates `creates`.
ApplyStep(mode, res, creates, ctx) ==
    [op |-> "apply", res |-> res, gets |-> <<>>, mode |-> mode, creates |-> creates,
     policy |-> "propagate", ctx |-> ctx]

\* kubectl::wait_for_condition(res, ...) followed by `?` ("propagate") or `.ok()` ("ignore").
WaitStep(res, policy, ctx) ==
    [op |-> "wait", res |-> res, gets |-> <<>>, mode |-> "", creates |-> {},
     policy |-> policy, ctx |-> ctx]

\* thread::sleep, or a kubectl patch whose result is dropped with .ok().
AuxStep(op, res) ==
    [op |-> op, res |-> res, gets |-> <<>>, mode |-> "", creates |-> {},
     policy |-> "ignore", ctx |-> ""]

\* cert_manager::install
cert_manager_install_swallow ==
    << MarkerStep(<<"ns/cert-manager">>),
       FallibleStep("download", "Failed to download cert-manager manifest"),
       ApplyStep("client", "cert-manager.yaml", {"ns/cert-manager"},
                 "Failed to apply cert-manager manifest"),
       WaitStep("deployment/cert-manager", "propagate",
                "cert-manager deployment not ready"),
       WaitStep("deployment/cert-manager-webhook", "ignore",
                "cert-manager-webhook deployment not ready"),
       WaitStep("deployment/cert-manager-cainjector", "propagate",
                "cert-manager-cainjector deployment not ready") >>

cert_manager_install ==
    << MarkerStep(<<"ns/cert-manager">>),
       FallibleStep("download", "Failed to download cert-manager manifest"),
       ApplyStep("client", "cert-manager.yaml", {"ns/cert-manager"},
                 "Failed to apply cert-manager manifest"),
       WaitStep("deployment/cert-manager", "propagate",
                "cert-manager deployment not ready"),
       WaitStep("deployment/cert-manager-webhook", "propagate",
                "cert-manager-webhook deployment not ready"),
       WaitStep("deployment/cert-manager-cainjector", "propagate",
                "cert-manager-cainjector deployment not ready") >>

\* jobset::install
jobset_install_client_apply ==
    << MarkerStep(<<"ns/jobset-system">>),
       FallibleStep("download", "Failed to download JobSet manifest"),
       ApplyStep("client", "jobset manifests.yaml", {"ns/jobset-system"},
                 "Failed to apply JobSet manifest"),
       WaitStep("deployment/jobset-controller-manager", "propagate",
                "JobSet controller deployment not ready") >>

jobset_install ==
    << MarkerStep(<<"ns/jobset-system">>),
       FallibleStep("download", "Failed to download JobSet manifest"),
       ApplyStep("server", "jobset manifests.yaml", {"ns/jobset-system"},
                 "Failed to apply JobSet manifest"),
       WaitStep("deployment/jobset-controller-manager", "propagate",
                "JobSet controller deployment not ready") >>

\* leaderworkerset::install
leaderworkerset_install ==
    << MarkerStep(<<"ns/lws-system">>),
       FallibleStep("download", "Failed to download LeaderWorkerSet manifest"),
       ApplyStep("client", "lws manifests.yaml", {"ns/lws-system"},
                 "Failed to apply LeaderWorkerSet manifest"),
       WaitStep("deployment/lws-controller-manager", "propagate",
                "LeaderWorkerSet controller deployment not ready") >>

\* appwrapper::install
appwrapper_install ==
    << MarkerStep(<<"ns/appwrapper-system">>),
       FallibleStep("download", "Failed to download AppWrapper manifest"),
       ApplyStep("server", "appwrapper install.yaml", {"ns/appwrapper-system"},
                 "Failed to apply AppWrapper manifest"),
       WaitStep("deployment/appwrapper-controller-manager", "propagate",
                "AppWrapper controller deployment not ready") >>

\* training_operator::install
training_operator_install ==
    << MarkerStep(<<"ns/kubeflow">>),
       ApplyStep("server", "training-operator kustomize overlay", {"ns/kubeflow"},
                 "Failed to apply Training Operator manifest"),
       WaitStep("deployment/training-operator", "propagate",
                "Training Operator deployment not ready") >>

\* olm::install_olm (is_olm_installed is its marker check)
install_olm ==
    << MarkerStep(<<"ns/olm", "deployment/olm-operator", "deployment/catalog-operator">>),
       FallibleStep("download", "Failed to fetch OLM releases"),
       FallibleStep("download", "Failed to get latest OLM version"),
       FallibleStep("download", "Failed to download OLM CRDs"),
       FallibleStep("tempfile", "tempfile crds.yaml"),
       ApplyStep("server", "olm crds.yaml", {}, "kubectl command failed"),
       FallibleStep("download", "Failed to download OLM manifests"),
       FallibleStep("tempfile", "tempfile olm.yaml"),
       ApplyStep("server", "olm.yaml",
                 {"ns/olm", "deployment/olm-operator", "deployment/catalog-operator"},
                 "kubectl command failed"),
       AuxStep("sleep", "5s"),
       WaitStep("deployment/catalog-operator", "ignore", ""),
       WaitStep("deployment/olm-operator", "ignore", ""),
       WaitStep("deployment/packageserver", "ignore", "") >>

\* calico::install
calico_install_apiserver_required ==
    << FallibleStep("download", "Failed to download Calico operator manifest"),
       ApplyStep("create", "tigera-operator.yaml", {"ns/tigera-operator"},
                 "Failed to apply Calico operator"),
       WaitStep("crd/installations.operator.tigera.io", "propagate",
                "Failed waiting for Installation CRD"),
       WaitStep("crd/apiservers.operator.tigera.io", "propagate",
                "Failed waiting for APIServer CRD"),
       ApplyStep("client", "calico custom resources", {"installation/default"},
                 "Failed to apply Calico custom resources"),
       WaitStep("pod -n tigera-operator", "ignore", ""),
       WaitStep("pod -n calico-system", "ignore", ""),
       WaitStep("pod -n calico-apiserver", "propagate", "calico-apiserver not ready"),
       WaitStep("nodes", "propagate", "Nodes did not become ready"),
       FallibleStep("get_nodes", "Failed to get node resources") >>

calico_install ==
    << FallibleStep("download", "Failed to download Calico operator manifest"),
       ApplyStep("create", "tigera-operator.yaml", {"ns/tigera-operator"},
                 "Failed to apply Calico operator"),
       WaitStep("crd/installations.operator.tigera.io", "propagate",
                "Failed waiting for Installation CRD"),
       WaitStep("crd/apiservers.operator.tigera.io", "propagate",
                "Failed waiting for APIServer CRD"),
       ApplyStep("client", "calico custom resources", {"installation/default"},
                 "Failed to apply Calico custom resources"),
       WaitStep("pod -n tigera-operator", "ignore", ""),
       WaitStep("pod -n calico-system", "ignore", ""),
       WaitStep("pod -n calico-apiserver", "ignore", ""),
       WaitStep("nodes", "propagate", "Nodes did not become ready"),
       FallibleStep("get_nodes", "Failed to get node resources") >>

\* prometheus::install_prometheus_operator
install_prometheus_operator ==
    << FallibleStep("download", "Failed to download Prometheus Operator bundle"),
       FallibleStep("tempfile", "tempfile bundle.yaml"),
       ApplyStep("server", "prometheus bundle.yaml", {"deployment/prometheus-operator"},
                 "kubectl command failed"),
       AuxStep("sleep", "5s"),
       AuxStep("patch", "deployment/prometheus-operator"),
       WaitStep("deployment/prometheus-operator", "propagate", "kubectl command failed") >>

Installers ==
    {"cert_manager", "jobset", "leaderworkerset", "appwrapper", "training_operator",
     "olm", "calico", "prometheus"}

Steps(i) ==
    CASE i = "cert_manager" -> cert_manager_install
      [] i = "jobset" -> jobset_install
      [] i = "leaderworkerset" -> leaderworkerset_install
      [] i = "appwrapper" -> appwrapper_install
      [] i = "training_operator" -> training_operator_install
      [] i = "olm" -> install_olm
      [] i = "calico" -> calico_install
      [] i = "prometheus" -> install_prometheus_operator
      [] OTHER -> <<>>

\* The step the running installer is at.
Running == inst_pc \in 1..Len(Steps(inst))
CurStep == Steps(inst)[inst_pc]

LogEntry(step, res, ok) == [op |-> step.op, res |-> res, mode |-> step.mode, ok |-> ok]

\* The readiness waits of installer i, and whether the calls in `log` saw each of
\* them succeed.
WaitSteps(i) == {k \in 1..Len(Steps(i)) : Steps(i)[k].op = "wait"}

ReadinessObserved(log, i) ==
    \A s \in WaitSteps(i) :
        \E k \in 1..Len(log) :
            log[k].op = "wait" /\ log[k].res = Steps(i)[s].res /\ log[k].ok

NoPrevCall == [name |-> "none", applied |-> FALSE, ready |-> FALSE]

\* The caller starts an installer: the previous call has returned.
install_call ==
    /\ UNCHANGED notInstallVars
    /\ inst_pc = 0
    /\ inst_callNo < MaxInstallCalls
    /\ \E i \in Installers :
          /\ inst' = i
          /\ inst_pc' = 1
    /\ inst_prev' = IF inst = "none" THEN NoPrevCall
                    ELSE [name |-> inst,
                          applied |-> \E k \in 1..Len(inst_log) :
                                         inst_log[k].op = "apply" /\ inst_log[k].ok,
                          ready |-> ReadinessObserved(inst_log, inst)]
    /\ inst_marker' = "unchecked"
    /\ inst_log' = <<>>
    /\ inst_result' = NoResult
    /\ inst_callNo' = inst_callNo + 1
    /\ UNCHANGED resources

\* The gets a marker check performs: it stops at the first one that is not Ok.
MarkerLog(step, results) ==
    LET n == Len(step.gets)
        bad == {k \in 1..n : ~IsOk(results[k])}
        last == IF bad = {} THEN n ELSE CHOOSE k \in bad : \A j \in bad : k <= j
    IN  [k \in 1..last |-> LogEntry(step, step.gets[k], IsOk(results[k]))]

\* After the marker check: found means "already installed", return Ok at once.
MarkerNextPcReinstall(found, pc) == pc + 1

MarkerNextPc(found, pc) == IF found THEN 0 ELSE pc + 1

step_marker ==
    /\ UNCHANGED notInstallVars
    /\ Running
    /\ CurStep.op = "marker"
    /\ \E results \in [1..Len(CurStep.gets) -> {"found", "notfound", "cmdfail"}] :
          /\ \A k \in 1..Len(CurStep.gets) :
                results[k] \in GetResults(CurStep.gets[k] \in resources)
          /\ LET found == \A k \in 1..Len(CurStep.gets) : IsOk(results[k])
             IN  /\ inst_log' = inst_log \o MarkerLog(CurStep, results)
                 /\ inst_marker' = IF found THEN "present" ELSE "absent"
                 /\ inst_pc' = MarkerNextPc(found, inst_pc)
                 /\ inst_result' = IF MarkerNextPc(found, inst_pc) = 0
                                   THEN OkResult ELSE inst_result
    /\ UNCHANGED <<resources, inst, inst_callNo, inst_prev>>

\* A download, temp-file write or node listing: its error is returned with `?`.
step_fallible ==
    /\ UNCHANGED notInstallVars
    /\ Running
    /\ CurStep.op \in {"download", "tempfile", "get_nodes"}
    /\ \E ok \in BOOLEAN :
          /\ inst_log' = Append(inst_log, LogEntry(CurStep, CurStep.ctx, ok))
          /\ inst_pc' = IF ok THEN inst_pc + 1 ELSE 0
          /\ inst_result' = IF ok THEN inst_result ELSE Err(<<CurStep.ctx>>)
    /\ UNCHANGED <<resources, inst, inst_marker, inst_callNo, inst_prev>>

\* kubectl create fails when an object of the manifest already exists.
ApplyMaySucceed(step, existing) ==
    step.mode = "create" => step.creates \cap existing = {}

\* What an apply leaves in the cluster: everything on success, any part on failure.
AfterApply(step, ok, existing) ==
    IF ok THEN {existing \cup step.creates}
    ELSE {existing \cup part : part \in SUBSET step.creates}

step_apply ==
    /\ UNCHANGED notInstallVars
    /\ Running
    /\ CurStep.op = "apply"
    /\ \E ok \in BOOLEAN :
          /\ ok => ApplyMaySucceed(CurStep, resources)
          /\ resources' \in AfterApply(CurStep, ok, resources)
          /\ inst_log' = Append(inst_log, LogEntry(CurStep, CurStep.res, ok))
          /\ inst_pc' = IF ok THEN inst_pc + 1 ELSE 0
          /\ inst_result' = IF ok THEN inst_result ELSE Err(<<CurStep.ctx>>)
    /\ UNCHANGED <<inst, inst_marker, inst_callNo, inst_prev>>

\* After a readiness wait: `?` returns the error, `.ok()` drops it and goes on.
WaitNextPc(step, ok, pc) ==
    IF ok \/ step.policy = "ignore" THEN pc + 1 ELSE 0

step_wait ==
    /\ UNCHANGED notInstallVars
    /\ Running
    /\ CurStep.op = "wait"
    /\ \E ok \in BOOLEAN :
          /\ inst_log' = Append(inst_log, LogEntry(CurStep, CurStep.res, ok))
          /\ inst_pc' = WaitNextPc(CurStep, ok, inst_pc)
          /\ inst_result' = IF WaitNextPc(CurStep, ok, inst_pc) = 0
                            THEN Err(<<CurStep.ctx>>) ELSE inst_result
    /\ UNCHANGED <<resources, inst, inst_marker, inst_callNo, inst_prev>>

\* A sleep, or a patch whose result is dropped.
step_aux ==
    /\ UNCHANGED notInstallVars
    /\ Running
    /\ CurStep.op \in {"sleep", "patch"}
    /\ \E ok \in BOOLEAN :
          /\ (CurStep.op = "sleep") => ok
          /\ inst_log' = Append(inst_log, LogEntry(CurStep, CurStep.res, ok))
    /\ inst_pc' = inst_pc + 1
    /\ UNCHANGED <<resources, inst, inst_marker, inst_result, inst_callNo, inst_prev>>

\* The final Ok(()) of an installer.
step_return ==
    /\ UNCHANGED notInstallVars
    /\ inst # "none"
    /\ inst_pc = Len(Steps(inst)) + 1
    /\ inst_pc' = 0
    /\ inst_result' = OkResult
    /\ UNCHANGED <<resources, inst, inst_marker, inst_log, inst_callNo, inst_prev>>

-----------------------------------------------------------------------------
(* deploy_kind (commands/deploy.rs) as a step list run by the main thread     *)

\* A call whose Err is returned with `?`.
Call(name) == [kind |-> "call", name |-> name]

\* A call whose result is dropped with .ok() or only logged.
CallIgnored(name) == [kind |-> "call_ignored", name |-> name]

\* std::thread::spawn of a worker, JoinHandle::join of it, std::thread::sleep.
Spawn(w) == [kind |-> "spawn", name |-> w]
Join(w) == [kind |-> "join", name |-> w]
Sleep(name) == [kind |-> "sleep", name |-> name]

WaitOperatorAvailable == "wait_for_condition deployment/openshift-kueue-operator"
ApplyKueueCr == "create_kueue_cr: apply_yaml"

\* deploy_kind up to the deployment-mode branch.
Preflight(bundle) ==
    << Call("ensure_operator_source_directory"),
       Call("ImageConfig::load"),
       Call("cluster.exists") >>
    \o (IF bundle THEN << Call("which operator-sdk") >> ELSE << >>)
    \o << Call("kubeconfig_path.exists"),
          Call("uninstall_operator_if_exists"),
          Call("ContainerRuntime::detect"),
          CallIgnored("kubectl delete lease") >>

\* The worker threads in spawn order; olm is installed for bundle deployments only.
SpawnOrderImageLoadLast(bundle) ==
    << "cert_manager", "jobset", "leaderworkerset" >>
    \o (IF bundle THEN << "olm" >> ELSE << >>)
    \o << "prometheus", "image_load" >>

SpawnOrder(bundle) ==
    << "image_load", "cert_manager", "jobset", "leaderworkerset" >>
    \o (IF bundle THEN << "olm" >> ELSE << >>)
    \o << "prometheus" >>

\* The worker threads in join order: the dependency installs, then the image load.
JoinOrderPrometheusFirst(bundle) ==
    << "prometheus", "cert_manager", "jobset", "leaderworkerset" >>
    \o (IF bundle THEN << "olm" >> ELSE << >>)
    \o << "image_load" >>

JoinOrder(bundle) ==
    << "cert_manager", "jobset", "leaderworkerset" >>
    \o (IF bundle THEN << "olm" >> ELSE << >>)
    \o << "prometheus", "image_load" >>

FanOut(bundle) ==
    [k \in 1..Len(SpawnOrder(bundle)) |-> Spawn(SpawnOrder(bundle)[k])]
    \o [k \in 1..Len(JoinOrder(bundle)) |-> Join(JoinOrder(bundle)[k])]

\* create_kueue_cr (install/operator.rs)
create_kueue_cr_available_first ==
    << Call(ApplyKueueCr),
       Call("create_kueue_cr: wait_for_condition deployment/kueue-controller-manager"),
       Call("create_kueue_cr: wait_for_deployment_to_exist") >>

create_kueue_cr ==
    << Call(ApplyKueueCr),
       Call("create_kueue_cr: wait_for_deployment_to_exist"),
       Call("create_kueue_cr: wait_for_condition deployment/kueue-controller-manager") >>

\* deploy_kind, bundle branch after the joins.
BundleTailWaitIgnored(skip) ==
    << Call("image_config.bundle"),
       Call("install_bundle"),
       CallIgnored(WaitOperatorAvailable),
       Sleep("30s") >>
    \o (IF skip THEN << >>
        ELSE << Call("build_kueue_config_from_settings") >> \o create_kueue_cr)

BundleTail(skip) ==
    << Call("image_config.bundle"),
       Call("install_bundle"),
       Call(WaitOperatorAvailable),
       Sleep("30s") >>
    \o (IF skip THEN << >>
        ELSE << Call("build_kueue_config_from_settings") >> \o create_kueue_cr)

\* install_operator_with_config (install/operator.rs)
install_operator_with_config(withConfig) ==
    << Call("image_config getters"),
       Call("tempfile::tempdir"),
       Call("copy_deploy_files"),
       Call("update_deployment_images"),
       Call("apply_operator_manifests"),
       Call(WaitOperatorAvailable),
       Sleep("30s") >>
    \o (IF withConfig THEN create_kueue_cr ELSE << >>)

\* deploy_kind, direct-manifest branch after the joins.
DirectTail(skip) ==
    << Call("install_crds") >>
    \o (IF skip THEN << >> ELSE << Call("build_kueue_config_from_settings") >>)
    \o install_operator_with_config(~skip)

\* deploy_kind after a successful deployment: the version queries only log.
Epilogue ==
    << CallIgnored("get_operator_version"), CallIgnored("get_kueue_manager_version") >>

DeployPlan ==
    Preflight(use_bundle) \o FanOut(use_bundle)
    \o (IF use_bundle THEN BundleTail(skip_kueue_cr) ELSE DirectTail(skip_kueue_cr))
    \o Epilogue

Workers == {"image_load", "cert_manager", "jobset", "leaderworkerset", "olm", "prometheus"}

DeployRunning == dk_pc \in 1..Len(DeployPlan)
DkStep == DeployPlan[dk_pc]

DkEntry(step, ok) == [name |-> step.name, kind |-> step.kind, ok |-> ok]

\* `?` after a call: an Err ends deploy_kind.
CallNextPcContinue(ok, pc) == pc + 1

CallNextPc(ok, pc) == IF ok THEN pc + 1 ELSE 0

\* A step of the main thread that returns a Result checked with `?`.
deploy_call ==
    /\ UNCHANGED notDeployVars
    /\ DeployRunning
    /\ DkStep.kind = "call"
    /\ \E ok \in BOOLEAN :
          /\ dk_log' = Append(dk_log, DkEntry(DkStep, ok))
          /\ dk_pc' = CallNextPc(ok, dk_pc)
          /\ dk_result' = IF CallNextPc(ok, dk_pc) = 0
                          THEN Err(<<DkStep.name>>) ELSE dk_result
    /\ UNCHANGED <<use_bundle, skip_kueue_cr, threads, thread_result, joined>>

\* A step whose failure is ignored, or a sleep.
deploy_call_ignored ==
    /\ UNCHANGED notDeployVars
    /\ DeployRunning
    /\ DkStep.kind \in {"call_ignored", "sleep"}
    /\ \E ok \in BOOLEAN :
          /\ (DkStep.kind = "sleep") => ok
          /\ dk_log' = Append(dk_log, DkEntry(DkStep, ok))
    /\ dk_pc' = dk_pc + 1
    /\ UNCHANGED <<use_bundle, skip_kueue_cr, dk_result, threads, thread_result, joined>>

\* std::thread::spawn: the worker starts running its installer.
deploy_spawn ==
    /\ UNCHANGED notDeployVars
    /\ DeployRunning
    /\ DkStep.kind = "spawn"
    /\ threads' = [threads EXCEPT ![DkStep.name] = "running"]
    /\ dk_log' = Append(dk_log, DkEntry(DkStep, TRUE))
    /\ dk_pc' = dk_pc + 1
    /\ UNCHANGED <<use_bundle, skip_kueue_cr, dk_result, thread_result, joined>>

\* Number of distinct errors explored for each worker thread.
MaxWorkerErrors == 2

\* The step's result is followed by `?`.
Propagates(step) ==
    \/ step.op \in {"download", "tempfile", "get_nodes", "apply"}
    \/ step.op = "wait" /\ step.policy = "propagate"

\* The errors an installer can return, in step order: the context of each step
\* followed by `?`.
StepErrors(steps) ==
    LET failing == SelectSeq(steps, Propagates)
    IN  [k \in 1..Len(failing) |-> failing[k].ctx]

\* The errors load_images_to_kind can return, in the order of its steps.
ImageLoadErrors ==
    << "Failed to ensure image", "Failed to load image to kind",
       "Image not found in configuration" >>

\* The errors the closure of each worker thread can return.
WorkerErrors(w) ==
    LET all == IF w = "image_load" THEN ImageLoadErrors ELSE StepErrors(Steps(w))
    IN  {all[k] : k \in {j \in 1..Len(all) : j <= MaxWorkerErrors}}

\* How a worker thread can end: its closure returns Ok or an Err, or it panics.
WorkerOutcomes(w) ==
    {[state |-> "ok", result |-> OkResult], [state |-> "panic", result |-> NoResult]}
    \cup {[state |-> "err", result |-> Err(<<msg>>)] : msg \in WorkerErrors(w)}

\* A worker thread finishes: its installer returned Ok or Err, or it panicked.
thread_finish ==
    /\ UNCHANGED notDeployVars
    /\ \E w \in Workers :
          /\ threads[w] = "running"
          /\ \E r \in WorkerOutcomes(w) :
                /\ threads' = [threads EXCEPT ![w] = r.state]
                /\ thread_result' = [thread_result EXCEPT ![w] = r.result]
    /\ UNCHANGED <<use_bundle, skip_kueue_cr, dk_pc, dk_log, dk_result, joined>>

\* JoinHandle::join blocks until the thread has finished.
JoinReadyDetached(state) == state # "unspawned"

JoinReady(state) == state \in {"ok", "err", "panic"}

\* The message map_err gives the panic of each worker.
PanicContext(w) ==
    CASE w = "cert_manager" -> "cert-manager thread panicked:"
      [] w = "jobset" -> "jobset thread panicked:"
      [] w = "leaderworkerset" -> "leaderworkerset thread panicked:"
      [] w = "olm" -> "olm thread panicked:"
      [] w = "prometheus" -> "prometheus thread panicked:"
      [] w = "image_load" -> "image load thread panicked:"

\* join().map_err(..)??: a panic becomes the map_err error, an Err returned by the
\* closure is returned as it is, Ok lets deploy_kind go on.
JoinResult(w, state, result, before) ==
    IF state = "panic" THEN Err(<<PanicContext(w), "panic payload">>)
    ELSE IF state = "err" THEN result
    ELSE before

\* handle.join().map_err(panicked)??: a panic or an Err ends deploy_kind.
deploy_join ==
    /\ UNCHANGED notDeployVars
    /\ DeployRunning
    /\ DkStep.kind = "join"
    /\ JoinReady(threads[DkStep.name])
    /\ joined' = joined \cup {DkStep.name}
    /\ LET state == threads[DkStep.name]
           ok == state \notin {"err", "panic"}
       IN  /\ dk_log' = Append(dk_log, DkEntry(DkStep, ok))
           /\ dk_pc' = IF ok THEN dk_pc + 1 ELSE 0
           /\ dk_result' = JoinResult(DkStep.name, state, thread_result[DkStep.name],
                                       dk_result)
    /\ UNCHANGED <<use_bundle, skip_kueue_cr, threads, thread_result>>

\* The final Ok(()) of deploy_kind.
deploy_return ==
    /\ UNCHANGED notDeployVars
    /\ dk_pc = Len(DeployPlan) + 1
    /\ dk_pc' = 0
    /\ dk_result' = OkResult
    /\ UNCHANGED <<use_bundle, skip_kueue_cr, dk_log, threads, thread_result, joined>>

-----------------------------------------------------------------------------
(* build_parallel (commands/build.rs)                                        *)

\* Largest number of components given to build_parallel.
MaxComponents == 3

VALID_COMPONENTS == << "operator", "operand", "must-gather" >>

\* The component at position k of the list (a name may be given more than once).
ComponentName(k) == VALID_COMPONENTS[((k - 1) % Len(VALID_COMPONENTS)) + 1]

\* The indexes of the components, one worker thread each.
BuildWorkers == 1..total

\* How build_and_push_component_with_progress can end: Ok, an Err from the image
\* configuration, the build or the push, or a panic.
BuildOutcomes == {"ok", "config", "build", "push", "panic"}

\* format!("Failed to build {}: {}", component, e)
BuildError(k, cause) == << "Failed to build", ComponentName(k), cause >>

\* errs.join("\n")
RECURSIVE JoinLines(_)
JoinLines(errs) ==
    IF errs = << >> THEN << >> ELSE Head(errs) \o JoinLines(Tail(errs))

\* The unwinding of build_parallel after handle.join().expect(..) panicked.
Panicked == [kind |-> "panic", msg |-> << "Thread panicked" >>]

\* Mutex::lock blocks while another thread holds the mutex.
CanLockAlways(holder) == TRUE

CanLock(holder) == holder = 0

\* for component in components { s.spawn(..) }
build_parallel_spawn ==
    /\ UNCHANGED notBuildVars
    /\ bp_pc = "spawn"
    /\ worker' = [worker EXCEPT ![bp_idx] = "building"]
    /\ IF bp_idx < total
       THEN bp_idx' = bp_idx + 1 /\ bp_pc' = bp_pc
       ELSE bp_idx' = 1 /\ bp_pc' = "join"
    /\ UNCHANGED <<total, bp_result, outcome, count_read, built, pushed, errors,
                   completed, errors_lock, completed_lock, progress>>

\* The worker's call of build_and_push_component_with_progress.
worker_build ==
    /\ UNCHANGED notBuildVars
    /\ \E k \in BuildWorkers :
          /\ worker[k] = "building"
          /\ \E o \in BuildOutcomes :
                /\ outcome' = [outcome EXCEPT ![k] = o]
                /\ built' = IF o \in {"ok", "push"} THEN built \cup {k} ELSE built
                /\ pushed' = IF o = "ok" THEN pushed \cup {k} ELSE pushed
                /\ worker' = [worker EXCEPT ![k] =
                                 CASE o = "ok" -> "lock_completed"
                                   [] o = "panic" -> "panicked"
                                   [] OTHER -> "lock_errors"]
    /\ UNCHANGED <<total, bp_pc, bp_idx, bp_result, count_read, errors, completed,
                   errors_lock, completed_lock, progress>>

\* Err arm: errors.lock()
worker_lock_errors ==
    /\ UNCHANGED notBuildVars
    /\ \E k \in BuildWorkers :
          /\ worker[k] = "lock_errors"
          /\ CanLock(errors_lock)
          /\ errors_lock' = k
          /\ worker' = [worker EXCEPT ![k] = "push"]
    /\ UNCHANGED <<total, bp_pc, bp_idx, bp_result, outcome, count_read, built, pushed,
                   errors, completed, completed_lock, progress>>

\* Err arm: errs.push(..), with the error-list guard held.
worker_push_error ==
    /\ UNCHANGED notBuildVars
    /\ \E k \in BuildWorkers :
          /\ worker[k] = "push"
          /\ errors' = Append(errors, BuildError(k, outcome[k]))
          /\ worker' = [worker EXCEPT ![k] = "lock_completed"]
    /\ UNCHANGED <<total, bp_pc, bp_idx, bp_result, outcome, count_read, built, pushed,
                   completed, errors_lock, completed_lock, progress>>

\* Both arms: completed.lock()
worker_lock_completed ==
    /\ UNCHANGED notBuildVars
    /\ \E k \in BuildWorkers :
          /\ worker[k] = "lock_completed"
          /\ CanLock(completed_lock)
          /\ completed_lock' = k
          /\ worker' = [worker EXCEPT ![k] = "read_count"]
    /\ UNCHANGED <<total, bp_pc, bp_idx, bp_result, outcome, count_read, built, pushed,
                   errors, completed, errors_lock, progress>>

\* *count += 1, first half: read the counter.
worker_read_count ==
    /\ UNCHANGED notBuildVars
    /\ \E k \in BuildWorkers :
          /\ worker[k] = "read_count"
          /\ count_read' = [count_read EXCEPT ![k] = completed]
          /\ worker' = [worker EXCEPT ![k] = "write_count"]
    /\ UNCHANGED <<total, bp_pc, bp_idx, bp_result, outcome, built, pushed, errors,
                   completed, errors_lock, completed_lock, progress>>

\* A MutexGuard going out of scope unlocks the mutex its thread holds.
DropGuardLeaked(holder, k) == holder

DropGuard(holder, k) == IF holder = k THEN 0 ELSE holder

\* *count += 1, second half, then send_progress_update(*count, total); the guards are
\* dropped at the end of the match arm and the closure returns.
worker_write_count ==
    /\ UNCHANGED notBuildVars
    /\ \E k \in BuildWorkers :
          /\ worker[k] = "write_count"
          /\ completed' = count_read[k] + 1
          /\ progress' = Append(progress, count_read[k] + 1)
          /\ completed_lock' = DropGuard(completed_lock, k)
          /\ errors_lock' = DropGuard(errors_lock, k)
          /\ worker' = [worker EXCEPT ![k] = "finished"]
    /\ UNCHANGED <<total, bp_pc, bp_idx, bp_result, outcome, count_read, built, pushed,
                   errors>>

\* The worker thread has ended, by returning or by panicking.
Ended(k) == worker[k] \in {"finished", "panicked"}

\* for handle in handles { handle.join().expect("Thread panicked") }
build_parallel_join ==
    /\ UNCHANGED notBuildVars
    /\ bp_pc = "join"
    /\ Ended(bp_idx)
    /\ IF worker[bp_idx] = "panicked"
       THEN bp_pc' = "unwinding" /\ bp_idx' = bp_idx
       ELSE IF bp_idx < total
            THEN bp_pc' = bp_pc /\ bp_idx' = bp_idx + 1
            ELSE bp_pc' = "collect" /\ bp_idx' = bp_idx
    /\ UNCHANGED <<total, bp_result, worker, outcome, count_read, built, pushed, errors,
                   completed, errors_lock, completed_lock, progress>>

\* std::thread::scope after its closure panicked: it waits for every spawned thread,
\* then resumes the panic.
build_parallel_unwind ==
    /\ UNCHANGED notBuildVars
    /\ bp_pc = "unwinding"
    /\ \A k \in BuildWorkers : Ended(k)
    /\ bp_pc' = "done"
    /\ bp_result' = Panicked
    /\ UNCHANGED <<total, bp_idx, worker, outcome, count_read, built, pushed, errors,
                   completed, errors_lock, completed_lock, progress>>

\* What build_parallel returns for the collected error list.
CollectResultLastOnly(errs) ==
    IF errs # << >>
    THEN Err(<< "Build failures:" >> \o errs[Len(errs)])
    ELSE OkResult

CollectResult(errs) ==
    IF errs # << >>
    THEN Err(<< "Build failures:" >> \o JoinLines(errs))
    ELSE OkResult

\* After the scope: Err("Build failures:\n..") if the error list is not empty.
build_parallel_return ==
    /\ UNCHANGED notBuildVars
    /\ bp_pc = "collect"
    /\ bp_pc' = "done"
    /\ bp_result' = CollectResult(errors)
    /\ UNCHANGED <<total, bp_idx, worker, outcome, count_read, built, pushed, errors,
                   completed, errors_lock, completed_lock, progress>>

BuildIdle ==
    /\ total = 1
    /\ bp_pc = "idle"
    /\ bp_idx = 1
    /\ bp_result = NoResult
    /\ worker = [k \in 1..MaxComponents |-> "unspawned"]
    /\ outcome = [k \in 1..MaxComponents |-> "none"]
    /\ count_read = [k \in 1..MaxComponents |-> 0]
    /\ built = {}
    /\ pushed = {}
    /\ errors = << >>
    /\ completed = 0
    /\ errors_lock = 0
    /\ completed_lock = 0
    /\ progress = << >>

-----------------------------------------------------------------------------
(* create_kueue_cr and wait_for_deployment_to_exist (install/operator.rs)    *)

\* The budget create_kueue_cr gives wait_for_deployment_to_exist, in seconds.
KueueExistTimeoutSecs == 60

\* std::thread::sleep(Duration::from_secs(5)) between two queries.
PollIntervalSecs == 5

\* Longest time explored for a kubectl get that exits, in seconds.
MaxCommandSecs == 10

\* The budgets wait_for_deployment_to_exist is entered with.
TimeoutInputs == {0, PollIntervalSecs + 2, KueueExistTimeoutSecs}

\* How long a kubectl get that exits can take.
CommandSecs == {0, 1, MaxCommandSecs}

\* anyhow!("Timeout waiting for deployment/{} to be created in namespace {}. The
\* operator may not be reconciling the Kueue CR properly.")
TimeoutError ==
    << "Timeout waiting for deployment to be created",
       "The operator may not be reconciling the Kueue CR properly." >>

\* What the caller of wait_for_deployment_to_exist gets for its result: create_kueue_cr
\* adds its context to an Err and returns it.
ExistWaitError(entry) ==
    IF entry = "create_kueue_cr"
    THEN Err(<< "Kueue controller-manager deployment was not created by operator" >>
             \o TimeoutError)
    ELSE Err(TimeoutError)

\* Where control goes when wait_for_deployment_to_exist returns.
AfterExistWaitErrorIgnored(entry, ok) ==
    IF entry = "create_kueue_cr" THEN "wait_available" ELSE "done"

AfterExistWait(entry, ok) ==
    IF entry = "create_kueue_cr" /\ ok THEN "wait_available" ELSE "done"

\* create_kueue_cr: kubectl::apply_yaml(..).context("Failed to create Kueue CR")?,
\* then the call of wait_for_deployment_to_exist, which takes `start`.
create_kueue_cr_apply ==
    /\ UNCHANGED notCrVars
    /\ cr_pc = "apply"
    /\ \E ok \in BOOLEAN :
          /\ cr_log' = IF ok THEN << "apply_yaml", "wait_for_deployment_to_exist" >>
                       ELSE << "apply_yaml" >>
          /\ cr_pc' = IF ok THEN "get" ELSE "done"
          /\ cr_result' = IF ok THEN cr_result ELSE Err(<< "Failed to create Kueue CR" >>)
    /\ elapsed' = 0
    /\ UNCHANGED <<cr_entry, timeout_secs, dep_exists, queries, last_get>>

\* The operator reconciles the Kueue CR and creates the Deployment.
operator_reconcile ==
    /\ UNCHANGED notCrVars
    /\ cr_pc \in {"get", "check", "sleep"}
    /\ ~dep_exists
    /\ dep_exists' = TRUE
    /\ UNCHANGED <<cr_entry, timeout_secs, cr_pc, cr_log, cr_result, elapsed, queries,
                   last_get>>

\* wait_for_deployment_to_exist: run_kubectl_output(["get", "deployment", ..]) exits
\* after some time; result.is_ok() returns Ok(()).
exist_query ==
    /\ UNCHANGED notCrVars
    /\ cr_pc = "get"
    /\ queries' = queries + 1
    /\ \E secs \in CommandSecs : elapsed' = elapsed + secs
    /\ \E r \in GetResults(dep_exists) :
          /\ last_get' = r
          /\ cr_pc' = IF IsOk(r) THEN AfterExistWait(cr_entry, TRUE) ELSE "check"
          /\ cr_result' = IF IsOk(r) /\ AfterExistWait(cr_entry, TRUE) = "done"
                          THEN OkResult ELSE cr_result
    /\ UNCHANGED <<cr_entry, timeout_secs, cr_log, dep_exists>>

\* The kubectl process never exits: Command::output() does not return.
exist_query_hangs ==
    /\ UNCHANGED notCrVars
    /\ cr_pc = "get"
    /\ queries' = queries + 1
    /\ cr_pc' = "blocked"
    /\ UNCHANGED <<cr_entry, timeout_secs, cr_log, cr_result, elapsed, dep_exists,
                   last_get>>

\* if start.elapsed() >= timeout { return Err(..) }
DeadlinePassedNever(secs, budget) == FALSE

DeadlinePassed(secs, budget) == secs >= budget

exist_check_timeout ==
    /\ UNCHANGED notCrVars
    /\ cr_pc = "check"
    /\ IF DeadlinePassed(elapsed, timeout_secs)
       THEN /\ cr_pc' = AfterExistWait(cr_entry, FALSE)
            /\ cr_result' = ExistWaitError(cr_entry)
       ELSE /\ cr_pc' = "sleep"
            /\ cr_result' = cr_result
    /\ UNCHANGED <<cr_entry, timeout_secs, cr_log, elapsed, dep_exists, queries, last_get>>

\* std::thread::sleep(Duration::from_secs(5)), then the next iteration.
exist_sleep ==
    /\ UNCHANGED notCrVars
    /\ cr_pc = "sleep"
    /\ elapsed' = elapsed + PollIntervalSecs
    /\ cr_pc' = "get"
    /\ UNCHANGED <<cr_entry, timeout_secs, cr_log, cr_result, dep_exists, queries,
                   last_get>>

\* create_kueue_cr: kubectl::wait_for_condition("deployment/kueue-controller-manager",
\* "condition=Available", .., "300s")?, then Ok(()).
create_kueue_cr_wait_available ==
    /\ UNCHANGED notCrVars
    /\ cr_pc = "wait_available"
    /\ cr_log' = Append(cr_log, "wait_for_condition")
    /\ cr_pc' = "done"
    /\ \E ok \in BOOLEAN :
          cr_result' =
              IF ok THEN OkResult
              ELSE Err(<< "Kueue controller-manager deployment did not become available" >>)
    /\ UNCHANGED <<cr_entry, timeout_secs, elapsed, dep_exists, queries, last_get>>

CrIdle ==
    /\ cr_entry = "none"
    /\ timeout_secs = 0
    /\ cr_pc = "idle"
    /\ cr_log = << >>
    /\ cr_result = NoResult
    /\ elapsed = 0
    /\ dep_exists = FALSE
    /\ queries = 0
    /\ last_get = "none"

DeployIdle ==
    /\ use_bundle = TRUE
    /\ skip_kueue_cr = FALSE
    /\ dk_pc = 1
    /\ dk_log = <<>>
    /\ dk_result = NoResult
    /\ threads = [w \in Workers |-> "unspawned"]
    /\ thread_result = [w \in Workers |-> NoResult]
    /\ joined = {}

InstallIdle ==
    /\ resources = {}
    /\ inst = "none"
    /\ inst_pc = 0
    /\ inst_marker = "unchecked"
    /\ inst_log = <<>>
    /\ inst_result = NoResult
    /\ inst_callNo = 0
    /\ inst_prev = NoPrevCall

ImagesIdle ==
    /\ cfg_missing = "none"
    /\ pull_if_missing = FALSE
    /\ img_local = {}
    /\ img_pc = "idle"
    /\ img_i = 0
    /\ img_ensured = <<>>
    /\ img_loaded = <<>>
    /\ img_log = <<>>
    /\ img_result = NoResult

UninstallIdle ==
    /\ op_deployment = FALSE
    /\ op_catalog = FALSE
    /\ sdk_on_path = FALSE
    /\ un_pc = "idle"
    /\ un_detected = "none"
    /\ un_cleanup = "notrun"
    /\ un_i = 0
    /\ un_checks = <<>>
    /\ un_deletes = <<>>
    /\ un_result = NoResult

ClusterIdle ==
    /\ cl_entry = "none"
    /\ cni = "default"
    /\ kubeconfig = FALSE
    /\ force = FALSE
    /\ cluster_present = FALSE
    /\ kubeconfig_file = FALSE
    /\ cl_pc = "idle"
    /\ cl_log = <<>>
    /\ cwk_return = "none"
    /\ kind_config = <<>>
    /\ cl_result = NoResult

TestIdle ==
    /\ focus = FALSE
    /\ label_filter = FALSE
    /\ rt_kubeconfig = FALSE
    /\ ginkgo_bin = FALSE
    /\ rt_pc = "idle"
    /\ rt_runs = <<>>
    /\ rt_prompts = 0
    /\ rt_reads = <<>>
    /\ rt_result = NoResult

BundleInit ==
    /\ InstallIdle
    /\ DeployIdle
    /\ BuildIdle
    /\ CrIdle
    /\ ClusterIdle
    /\ TestIdle
    /\ UninstallIdle
    /\ ImagesIdle
    /\ ib_pc = "idle"
    /\ catalogPresent \in BOOLEAN
    /\ catalog_check = "none"
    /\ runBundleCalls = 0
    /\ cleanupCalls = 0
    /\ firstOut = NoOutput
    /\ cleanupOut = NoOutput
    /\ retryOut = NoOutput
    /\ ib_warned = FALSE
    /\ ib_result = NoResult
    /\ ib_callNo = 0
    /\ ib_prev = NoPrev

BundleNext ==
    \/ install_bundle_begin
    \/ run_bundle_catalog_check
    \/ run_bundle_first_attempt
    \/ cleanup_and_retry_cleanup
    \/ cleanup_and_retry_settle
    \/ cleanup_and_retry_retry
    \/ install_bundle_finish

SpecBundle == BundleInit /\ [][BundleNext]_vars

BundleIdle ==
    /\ ib_pc = "idle"
    /\ catalogPresent = FALSE
    /\ catalog_check = "none"
    /\ runBundleCalls = 0
    /\ cleanupCalls = 0
    /\ firstOut = NoOutput
    /\ cleanupOut = NoOutput
    /\ retryOut = NoOutput
    /\ ib_warned = FALSE
    /\ ib_result = NoResult
    /\ ib_callNo = 0
    /\ ib_prev = NoPrev

InstallInit ==
    BundleIdle /\ InstallIdle /\ DeployIdle /\ BuildIdle /\ CrIdle /\ ClusterIdle /\ TestIdle
    /\ UninstallIdle
    /\ ImagesIdle

InstallNext ==
    \/ install_call
    \/ step_marker
    \/ step_fallible
    \/ step_apply
    \/ step_wait
    \/ step_aux
    \/ step_return

SpecInstall == InstallInit /\ [][InstallNext]_vars

DeployInit ==
    /\ BundleIdle
    /\ InstallIdle
    /\ BuildIdle
    /\ CrIdle
    /\ ClusterIdle
    /\ TestIdle
    /\ UninstallIdle
    /\ ImagesIdle
    /\ use_bundle \in BOOLEAN
    /\ skip_kueue_cr \in BOOLEAN
    /\ dk_pc = 1
    /\ dk_log = <<>>
    /\ dk_result = NoResult
    /\ threads = [w \in Workers |-> "unspawned"]
    /\ thread_result = [w \in Workers |-> NoResult]
    /\ joined = {}

DeployNext ==
    \/ deploy_call
    \/ deploy_call_ignored
    \/ deploy_spawn
    \/ thread_finish
    \/ deploy_join
    \/ deploy_return

SpecDeploy == DeployInit /\ [][DeployNext]_vars

\* build_parallel is entered with 1..MaxComponents components; send_progress_update(0,
\* total) and the creation of the shared list and counter precede the spawn loop.
BuildInit ==
    /\ BundleIdle
    /\ InstallIdle
    /\ DeployIdle
    /\ CrIdle
    /\ ClusterIdle
    /\ TestIdle
    /\ UninstallIdle
    /\ ImagesIdle
    /\ total \in 1..MaxComponents
    /\ bp_pc = "spawn"
    /\ bp_idx = 1
    /\ bp_result = NoResult
    /\ worker = [k \in 1..MaxComponents |-> "unspawned"]
    /\ outcome = [k \in 1..MaxComponents |-> "none"]
    /\ count_read = [k \in 1..MaxComponents |-> 0]
    /\ built = {}
    /\ pushed = {}
    /\ errors = << >>
    /\ completed = 0
    /\ errors_lock = 0
    /\ completed_lock = 0
    /\ progress = << >>

BuildNext ==
    \/ build_parallel_spawn
    \/ worker_build
    \/ worker_lock_errors
    \/ worker_push_error
    \/ worker_lock_completed
    \/ worker_read_count
    \/ worker_write_count
    \/ build_parallel_join
    \/ build_parallel_unwind
    \/ build_parallel_return

SpecBuild == BuildInit /\ [][BuildNext]_vars

\* Either create_kueue_cr is called (it waits with the 60 s budget), or
\* wait_for_deployment_to_exist itself with one of TimeoutInputs; the Deployment may
\* exist already.
KueueCrInit ==
    /\ BundleIdle
    /\ InstallIdle
    /\ DeployIdle
    /\ BuildIdle
    /\ ClusterIdle
    /\ TestIdle
    /\ UninstallIdle
    /\ ImagesIdle
    /\ cr_entry \in {"create_kueue_cr", "wait_for_deployment_to_exist"}
    /\ timeout_secs \in TimeoutInputs
    /\ cr_entry = "create_kueue_cr" => timeout_secs = KueueExistTimeoutSecs
    /\ cr_pc = IF cr_entry = "create_kueue_cr" THEN "apply" ELSE "get"
    /\ cr_log = << >>
    /\ cr_result = NoResult
    /\ elapsed = 0
    /\ dep_exists \in BOOLEAN
    /\ queries = 0
    /\ last_get = "none"

KueueCrNext ==
    \/ create_kueue_cr_apply
    \/ operator_reconcile
    \/ exist_query
    \/ exist_query_hangs
    \/ exist_check_timeout
    \/ exist_sleep
    \/ create_kueue_cr_wait_available

SpecKueueCr == KueueCrInit /\ [][KueueCrNext]_vars

-----------------------------------------------------------------------------
(* Properties of the conflict-retry installer                                *)

\* The first run-bundle command was issued in this call.
FirstAttemptMade == firstOut.status # "notrun"

\* The retry run-bundle command was issued in this call.
RetryAttemptMade == retryOut.status # "notrun"

\* The command exited non-zero with the conflict signature in its output.
IsConflict(out) ==
    /\ out.status = "failure"
    /\ \/ ContainsAlreadyExists(out.stdout)
       \/ ContainsAlreadyExists(out.stderr)

\* install_bundle returned and every run-bundle attempt it made was a conflict.
EveryAttemptConflict ==
    /\ ib_pc = "done"
    /\ runBundleCalls >= 1
    /\ FirstAttemptMade => IsConflict(firstOut)
    /\ RetryAttemptMade => IsConflict(retryOut)

\* C3 (as stated): when every attempt matches the conflict signature (and the cleanup
\* command was executed), install_bundle makes exactly 2 run-bundle attempts and
\* exactly 1 cleanup call.
C3_ExactlyTwoAttempts ==
    (EveryAttemptConflict /\ Spawned(cleanupOut)) =>
        (runBundleCalls = 2 /\ cleanupCalls = 1)

\* C3 (amended): never more than 2 run-bundle attempts nor more than 1 cleanup call;
\* when every attempt made matches the conflict signature and the cleanup command
\* could be executed, exactly 1 cleanup call, and exactly 2 attempts if the pre-check
\* did not find the catalog source but exactly 1 attempt if it found it.
C3_ConflictRetryBound ==
    /\ runBundleCalls <= 2
    /\ cleanupCalls <= 1
    /\ (EveryAttemptConflict /\ Spawned(cleanupOut)) =>
          /\ cleanupCalls = 1
          /\ runBundleCalls = IF IsOk(catalog_check) THEN 1 ELSE 2

C3_Witness ==
    /\ EveryAttemptConflict
    /\ ~IsOk(catalog_check)
    /\ runBundleCalls = 2
    /\ cleanupCalls = 1
    /\ ContainsAlreadyExists(firstOut.stdout)
    /\ ~ContainsAlreadyExists(firstOut.stderr)

\* C4: a first run-bundle attempt that exits non-zero with the conflict signature in
\* neither stdout nor stderr makes run_bundle_with_retry return that error at once:
\* no cleanup call and no retry attempt.
C4_NonConflictTerminal ==
    (/\ firstOut.status = "failure"
     /\ ~ContainsAlreadyExists(firstOut.stdout)
     /\ ~ContainsAlreadyExists(firstOut.stderr)) =>
        /\ ib_pc = "done"
        /\ cleanupCalls = 0
        /\ runBundleCalls = 1
        /\ ~RetryAttemptMade
        /\ ib_result = Err(<<"operator-sdk run bundle failed:",
                             firstOut.stdout, firstOut.stderr>>)

C4_Witness ==
    /\ ib_pc = "done"
    /\ firstOut.status = "failure"
    /\ firstOut.stdout = <<"exists", "already">>
    /\ firstOut.stderr = <<"denied">>
    /\ ib_result.kind = "err"

\* C5: when the pre-check finds the catalog source, the first run-bundle invocation
\* is skipped, cleanup runs, then one run-bundle attempt is made (only after the
\* cleanup was executed); if that attempt succeeds install_bundle returns Ok.
C5_MarkerSkipsFirstAttempt ==
    IsOk(catalog_check) =>
        /\ ~FirstAttemptMade
        /\ runBundleCalls <= 1
        /\ RetryAttemptMade => (Spawned(cleanupOut) /\ cleanupCalls = 1)
        /\ (ib_pc \in {"settle", "retry"}) => (cleanupCalls = 1 /\ runBundleCalls = 0)
        /\ (ib_pc = "done" /\ Spawned(cleanupOut)) => runBundleCalls = 1
        /\ (ib_pc = "done" /\ Success(retryOut)) => ib_result = OkResult
        /\ (ib_pc = "done" /\ ib_result = OkResult) => Success(retryOut)

C5_Witness ==
    /\ ib_pc = "done"
    /\ IsOk(catalog_check)
    /\ cleanupCalls = 1
    /\ runBundleCalls = 1
    /\ Success(retryOut)
    /\ ib_result = OkResult

\* C6 (as stated): the error returned after a failed retry carries the cleanup
\* outcome, so two calls returning the same error had the same cleanup outcome.
C6_ErrorCarriesCleanupOutcome ==
    (/\ ib_pc = "done"
     /\ Returned.retryFailed
     /\ ib_prev.retryFailed
     /\ ib_result = ib_prev.result) =>
        Returned.cleanupSuccess = ib_prev.cleanupSuccess

-----------------------------------------------------------------------------
(* Properties of the dependency installers                                   *)

\* The installers that start with a marker check.
MarkerInstallers ==
    {"cert_manager", "jobset", "leaderworkerset", "appwrapper", "training_operator",
     "olm"}

\* The positions of the log that are calls of kind `op`.
LogOps(op) == {k \in 1..Len(inst_log) : inst_log[k].op = op}

\* The installer call has returned.
InstallReturned == inst # "none" /\ inst_pc = 0

\* C7: a marker-checking installer whose marker check finds the marker returns Ok
\* having made no apply call and no readiness wait (also on the second of two
\* sequential calls for the same target).
C7_MarkerPresentNoApplyNoWait ==
    (inst \in MarkerInstallers /\ inst_marker = "present") =>
        /\ InstallReturned
        /\ inst_result = OkResult
        /\ LogOps("apply") = {}
        /\ LogOps("wait") = {}
        /\ \A k \in 1..Len(inst_log) : inst_log[k].op = "marker" /\ inst_log[k].ok

C7_Witness ==
    /\ inst_callNo = 2
    /\ inst = "olm"
    /\ inst_prev.name = "olm"
    /\ inst_prev.applied
    /\ inst_marker = "present"
    /\ InstallReturned
    /\ inst_result = OkResult
    /\ Len(inst_log) = 3

\* C8 (as stated): every dependency installer, calico and prometheus included,
\* applies or creates a manifest only after a marker check that found the marker
\* absent.
C8_EveryInstallerChecksMarker ==
    \A k \in LogOps("apply") :
        \E j \in LogOps("marker") : j < k /\ ~inst_log[j].ok

\* The readiness conditions of cert_manager::install, in their listed order.
CertManagerConditions ==
    << "deployment/cert-manager", "deployment/cert-manager-webhook",
       "deployment/cert-manager-cainjector" >>

\* The installers whose every readiness wait is followed by `?`.
FailFastInstallers ==
    {"cert_manager", "jobset", "leaderworkerset", "appwrapper", "training_operator"}

\* The resources waited on so far, in call order.
WaitedOn == [k \in 1..Cardinality(LogOps("wait")) |->
                LET at == CHOOSE j \in LogOps("wait") :
                              Cardinality({i \in LogOps("wait") : i <= j}) = k
                IN  inst_log[at].res]

C10_OlmWaitFailureReturned ==
    (/\ inst = "olm"
     /\ InstallReturned
     /\ \E k \in LogOps("wait") : ~inst_log[k].ok) =>
        inst_result.kind = "err"

\* The positions of the log that are readiness waits on `res`.
WaitsOn(res) == {k \in LogOps("wait") : inst_log[k].res = res}

\* calico::install returned after its calico-apiserver pod wait failed.
CalicoApiserverWaitFailed ==
    /\ inst = "calico"
    /\ InstallReturned
    /\ \E k \in WaitsOn("pod -n calico-apiserver") : ~inst_log[k].ok

\* C11 (as stated): after a failed calico-apiserver wait the nodes-Ready wait is still
\* performed and its result alone decides whether calico::install returns Ok or an
\* error.
C11_NodesWaitAloneDecides ==
    CalicoApiserverWaitFailed =>
        /\ WaitsOn("nodes") # {}
        /\ \A k \in WaitsOn("nodes") : (inst_result = OkResult) <=> inst_log[k].ok

\* C11 (amended): a failed calico-apiserver wait does not fail calico::install: the
\* nodes-Ready wait is the next call; if it fails install returns "Nodes did not
\* become ready", and if it succeeds the node listing follows and install returns Ok
\* exactly when that listing succeeds too.
C11_ApiserverWaitBestEffort ==
    /\ \A k \in WaitsOn("pod -n calico-apiserver") :
           k < Len(inst_log) => inst_log[k + 1].res = "nodes"
    /\ CalicoApiserverWaitFailed =>
           \E k \in WaitsOn("nodes") :
               /\ \E j \in WaitsOn("pod -n calico-apiserver") : k = j + 1
               /\ ~inst_log[k].ok =>
                      /\ k = Len(inst_log)
                      /\ inst_result = Err(<<"Nodes did not become ready">>)
               /\ inst_log[k].ok =>
                      /\ Len(inst_log) = k + 1
                      /\ inst_log[k + 1].op = "get_nodes"
                      /\ (inst_result = OkResult) <=> inst_log[k + 1].ok

C11_Witness ==
    /\ CalicoApiserverWaitFailed
    /\ \E k \in WaitsOn("nodes") : inst_log[k].ok
    /\ inst_result = OkResult

-----------------------------------------------------------------------------
(* Properties of deploy_kind                                                 *)

\* The positions of deploy_kind's log that are executions of step `name`.
DkAt(name) == {k \in 1..Len(dk_log) : dk_log[k].name = name}

\* C1: in deploy_kind's bundle path and in install_operator_with_config the Kueue
\* custom-resource apply is invoked only after the wait for
\* deployment/openshift-kueue-operator returned success; a failed wait ends the run
\* and the apply is never invoked.
C1_CrApplyGatedOnOperatorAvailable ==
    /\ \A k \in DkAt("create_kueue_cr: apply_yaml") :
          \E j \in DkAt("wait_for_condition deployment/openshift-kueue-operator") :
              j < k /\ dk_log[j].ok
    /\ \A j \in DkAt("wait_for_condition deployment/openshift-kueue-operator") :
          ~dk_log[j].ok =>
              /\ j = Len(dk_log)
              /\ dk_pc = 0
              /\ dk_result.kind = "err"
              /\ DkAt("create_kueue_cr: apply_yaml") = {}

C1_Witness ==
    /\ use_bundle
    /\ DkAt("create_kueue_cr: apply_yaml") # {}
    /\ DkAt("install_bundle") # {}

\* The worker threads deploy_kind spawns in each deployment mode.
SpawnedWorkers ==
    IF use_bundle
    THEN {"image_load", "cert_manager", "jobset", "leaderworkerset", "olm", "prometheus"}
    ELSE {"image_load", "cert_manager", "jobset", "leaderworkerset", "prometheus"}

\* The operator install step (install_bundle or install_crds) is about to start or
\* has started.
OperatorInstallReached ==
    \/ DkAt("install_bundle") # {}
    \/ DkAt("install_crds") # {}
    \/ /\ dk_pc \in 1..Len(DeployPlan)
       /\ DeployPlan[dk_pc].name \in {"install_bundle", "install_crds"}

\* C2: when the operator install step of deploy_kind begins, every dependency worker
\* and the image-load thread has finished and been joined; no worker thread is
\* running then or later.
C2_NoWorkerCrossesPhaseBoundary ==
    OperatorInstallReached =>
        /\ \A w \in SpawnedWorkers : threads[w] = "ok" /\ w \in joined
        /\ \A w \in Workers : threads[w] # "running"

C2_Witness ==
    /\ ~use_bundle
    /\ DkAt("install_crds") # {}
    /\ joined = {"image_load", "cert_manager", "jobset", "leaderworkerset", "prometheus"}
    /\ threads["olm"] = "unspawned"

\* The positions of deploy_kind's log where worker `w` was spawned, was joined.
SpawnAt(w) == {k \in DkAt(w) : dk_log[k].kind = "spawn"}
JoinAt(w) == {k \in DkAt(w) : dk_log[k].kind = "join"}

\* Every worker thread of this deployment mode has been spawned.
AllSpawned == \A w \in SpawnedWorkers : threads[w] # "unspawned"

\* deploy_kind has returned.
DeployReturned == dk_pc = 0

\* C12 (as stated): once all workers are spawned, every one of them is joined before
\* deploy_kind returns, also when an earlier-joined worker returned an error.
C12_EveryWorkerJoinedBeforeReturn ==
    (DeployReturned /\ AllSpawned) => \A w \in SpawnedWorkers : w \in joined

\* The dependency workers of deploy_kind in spawn order.
DependencyOrder == << "cert_manager", "jobset", "leaderworkerset", "olm", "prometheus" >>

\* The worker's closure returned an error or panicked.
Failed(w) == threads[w] \in {"err", "panic"}

\* The positions in DependencyOrder of the dependency workers that failed.
FailedDependencies == {k \in 1..Len(DependencyOrder) : Failed(DependencyOrder[k])}

\* The failing dependency worker earliest in spawn order.
FirstFailedDependency ==
    DependencyOrder[CHOOSE k \in FailedDependencies : \A j \in FailedDependencies : k <= j]

\* C13: when deploy_kind has returned and dependency workers failed, the error it
\* returned is that of the failing worker earliest in spawn order, and every worker
\* before that one finished with Ok: the outcome is determined by the workers' own
\* results, whatever order they finished in.
C13_FirstFailingInSpawnOrder ==
    (DeployReturned /\ FailedDependencies # {}) =>
        LET w == FirstFailedDependency
        IN  /\ dk_result = JoinResult(w, threads[w], thread_result[w], NoResult)
            /\ dk_result.kind = "err"
            /\ w \in joined
            /\ \A k \in 1..Len(DependencyOrder) :
                   (DependencyOrder[k] \in joined /\ DependencyOrder[k] # w) =>
                       threads[DependencyOrder[k]] = "ok"

C13_Witness ==
    /\ DeployReturned
    /\ threads["cert_manager"] = "ok"
    /\ threads["jobset"] = "err"
    /\ threads["leaderworkerset"] = "running"
    /\ threads["olm"] = "panic"
    /\ threads["prometheus"] = "err"
    /\ dk_result = thread_result["jobset"]

\* C17: in deploy_kind the image-load thread is spawned before every dependency
\* worker and joined only after every dependency worker was joined with Ok, so the
\* image load and the dependency installs can be running at the same time.
C17_ImageLoadOverlapsDependencies ==
    /\ \A w \in Workers \ {"image_load"} :
           \A k \in SpawnAt(w) : \E j \in SpawnAt("image_load") : j < k
    /\ \A k \in JoinAt("image_load") :
           \A w \in SpawnedWorkers \ {"image_load"} :
               \E j \in JoinAt(w) : j < k /\ dk_log[j].ok
    /\ \A w \in Workers \ {"image_load"} :
           threads[w] # "unspawned" => threads["image_load"] # "unspawned"

C17_Witness ==
    /\ threads["image_load"] = "running"
    /\ threads["cert_manager"] = "running"
    /\ threads["prometheus"] = "running"
    /\ JoinAt("cert_manager") = {}

\* deploy_kind returned at the join of the image-load thread.
ImageLoadJoinFailed ==
    /\ DeployReturned
    /\ \E k \in JoinAt("image_load") : k = Len(dk_log) /\ ~dk_log[k].ok

\* C18 (as stated): an error returned by load_images_to_kind is reported by
\* deploy_kind wrapped in a context that identifies the image-load task.
C18_ImageLoadErrorWrapped ==
    (ImageLoadJoinFailed /\ threads["image_load"] = "err") =>
        /\ dk_result.kind = "err"
        /\ Len(dk_result.msg) > 1
        /\ dk_result.msg[1] = PanicContext("image_load")

-----------------------------------------------------------------------------
(* Properties of build_parallel                                              *)

\* build_parallel has returned or unwound.
BuildEnded == bp_pc = "done"

\* The components whose build_and_push returned an error.
FailedComponents == {k \in BuildWorkers : outcome[k] \in {"config", "build", "push"}}

\* C14 (as stated): a panic in a component worker of build_parallel is caught at the
\* join and returned to the caller as an error.
C14_WorkerPanicBecomesError ==
    (BuildEnded /\ \E k \in BuildWorkers : worker[k] = "panicked") =>
        bp_result.kind = "err"

\* The message of the returned error contains the entry of component k.
NamesComponent(msg, k) ==
    \E i \in 1..(Len(msg) - 2) :
        /\ msg[i] = "Failed to build"
        /\ msg[i + 1] = ComponentName(k)
        /\ msg[i + 2] = outcome[k]

\* C15: when build_parallel ends every component's worker has run to its end
\* whatever the other components did, a component whose build returned Ok is built
\* and pushed, and build_parallel returns Err exactly when at least one component
\* failed, with a message that names every failed component.
C15_AllRunAndFailuresAggregated ==
    BuildEnded =>
        /\ \A k \in BuildWorkers : Ended(k) /\ outcome[k] # "none"
        /\ \A k \in BuildWorkers : outcome[k] = "ok" => (k \in built /\ k \in pushed)
        /\ bp_result # Panicked =>
              /\ bp_result.kind \in {"ok", "err"}
              /\ (bp_result.kind = "err") <=> (FailedComponents # {})
              /\ \A k \in FailedComponents : NamesComponent(bp_result.msg, k)
              /\ Len(bp_result.msg) =
                    IF FailedComponents = {} THEN 0
                    ELSE 1 + 3 * Cardinality(FailedComponents)

C15_Witness ==
    /\ BuildEnded
    /\ total = 3
    /\ outcome = [k \in 1..MaxComponents |-> IF k = 2 THEN "build" ELSE "ok"]
    /\ built = {1, 3}
    /\ pushed = {1, 3}
    /\ bp_result = Err(<< "Build failures:", "Failed to build", "operand", "build" >>)

\* The workers that have appended to the error list, that have counted themselves.
Appended == {k \in FailedComponents : worker[k] \notin {"lock_errors", "push"}}
Counted == {k \in BuildWorkers : worker[k] = "finished"}

\* C16: the error list and the counter are only accessed by the holder of their
\* mutex; under every interleaving each failed worker appends once and each worker
\* that ends normally increments the counter once, the reported counts are 1, 2, ..
\* in increasing order, and after the joins the counter equals the number of
\* components and the list length the number of failed components.
C16_SharedStateUnderMutex ==
    /\ \A k \in BuildWorkers :
          /\ worker[k] = "push" => errors_lock = k
          /\ worker[k] \in {"read_count", "write_count"} => completed_lock = k
          /\ errors_lock = k => worker[k] \in {"push", "lock_completed", "read_count",
                                                "write_count"}
    /\ Len(errors) = Cardinality(Appended)
    /\ completed = Cardinality(Counted)
    /\ progress = [i \in 1..completed |-> i]
    /\ (bp_pc = "collect" \/ (BuildEnded /\ bp_result # Panicked)) =>
          /\ completed = total
          /\ Len(errors) = Cardinality(FailedComponents)
          /\ progress = [i \in 1..total |-> i]

C16_Witness ==
    /\ BuildEnded
    /\ total = 3
    /\ completed = 3
    /\ progress = << 1, 2, 3 >>
    /\ errors = << BuildError(3, "push"), BuildError(1, "config") >>
    /\ outcome[2] = "ok"

-----------------------------------------------------------------------------
(* Properties of create_kueue_cr and wait_for_deployment_to_exist            *)

\* The calls create_kueue_cr has made.
CrCalls == {cr_log[k] : k \in 1..Len(cr_log)}

\* wait_for_deployment_to_exist returned its timeout error.
ExistWaitTimedOut == cr_result = ExistWaitError(cr_entry)

\* C19: in create_kueue_cr the wait for kueue-controller-manager to be Available is
\* started only after a query found the Deployment; the poller sleeps only while the
\* 60 s budget has not expired, and when no query has found the Deployment by then
\* create_kueue_cr returns the timeout error ("...may not be reconciling...") without
\* starting the Available wait.
C19_TimeoutSkipsAvailableWait ==
    cr_entry = "create_kueue_cr" =>
        /\ ("wait_for_condition" \in CrCalls \/ cr_pc = "wait_available") =>
              last_get = "found"
        /\ cr_pc = "sleep" => elapsed < KueueExistTimeoutSecs
        /\ (cr_pc = "done" /\ queries > 0 /\ last_get # "found") =>
              /\ elapsed >= KueueExistTimeoutSecs
              /\ cr_result =
                    Err(<< "Kueue controller-manager deployment was not created by operator",
                           "Timeout waiting for deployment to be created",
                           "The operator may not be reconciling the Kueue CR properly." >>)
              /\ cr_log = << "apply_yaml", "wait_for_deployment_to_exist" >>

C19_Witness ==
    /\ cr_entry = "create_kueue_cr"
    /\ cr_pc = "done"
    /\ ~dep_exists
    /\ last_get = "notfound"
    /\ elapsed = KueueExistTimeoutSecs
    /\ queries = 13
    /\ ExistWaitTimedOut
    /\ "wait_for_condition" \notin CrCalls

\* C20 (as stated): when the Deployment is never observed, also with a kubectl that
\* hangs, wait_for_deployment_to_exist is not held up in a query and returns the
\* timeout error no earlier than the budget and no later than one polling interval
\* after it.
C20_TimesOutWithinOneInterval ==
    timeout_secs = KueueExistTimeoutSecs =>
        /\ cr_pc # "blocked"
        /\ ExistWaitTimedOut =>
              /\ elapsed >= timeout_secs
              /\ elapsed <= timeout_secs + PollIntervalSecs

\* C21 (as stated): a query of the existence poller that itself errors ends the wait
\* with a command-failure result, distinct from the timeout error, and is not
\* treated as "keep waiting".
C21_QueryErrorEndsWait ==
    last_get = "cmdfail" =>
        /\ cr_pc = "done"
        /\ cr_result.kind = "err"
        /\ ~ExistWaitTimedOut

-----------------------------------------------------------------------------
(* Properties of the deploy_kind pipeline                                    *)

\* The gated steps of the bundle path, in pipeline order.
BundlePipeline ==
    << "install_bundle",
       "wait_for_condition deployment/openshift-kueue-operator",
       "30s",
       "create_kueue_cr: apply_yaml",
       "create_kueue_cr: wait_for_deployment_to_exist",
       "create_kueue_cr: wait_for_condition deployment/kueue-controller-manager" >>

\* C22: in the bundle path with the Kueue CR not skipped, each of install_bundle, the
\* operator Available wait, the settle delay, the Kueue CR apply, the existence poll
\* and the kueue-controller-manager Available wait is executed at most once and only
\* after its predecessor in that order succeeded; a run that returns Ok has executed
\* all six.
C22_BundlePipelineOrder ==
    (use_bundle /\ ~skip_kueue_cr) =>
        /\ \A k \in 1..Len(BundlePipeline) : Cardinality(DkAt(BundlePipeline[k])) <= 1
        /\ \A k \in 2..Len(BundlePipeline) :
              \A i \in DkAt(BundlePipeline[k]) :
                  \E j \in DkAt(BundlePipeline[k - 1]) : j < i /\ dk_log[j].ok
        /\ dk_result = OkResult =>
              \A k \in 1..Len(BundlePipeline) :
                  \E i \in DkAt(BundlePipeline[k]) : dk_log[i].ok

C22_Witness ==
    /\ use_bundle
    /\ ~skip_kueue_cr
    /\ dk_result = OkResult
    /\ DkAt("create_kueue_cr: wait_for_condition deployment/kueue-controller-manager") # {}

\* The positions of deploy_kind's log whose step returned an error that `?` checks.
FailedSteps ==
    {k \in 1..Len(dk_log) : dk_log[k].kind \in {"call", "join"} /\ ~dk_log[k].ok}

\* C23: a step of deploy_kind whose Result is checked (every preflight check, join,
\* install and wait; not the best-effort lease delete and version queries) and that
\* returns an error is the last step executed: deploy_kind has returned an error, and
\* what was executed is exactly the plan up to that step, with no compensating call
\* after it.
C23_StepFailureTerminal ==
    /\ \A k \in FailedSteps :
          /\ k = Len(dk_log)
          /\ DeployReturned
          /\ dk_result.kind = "err"
    /\ Len(dk_log) <= Len(DeployPlan)
    /\ \A k \in 1..Len(dk_log) :
          /\ dk_log[k].name = DeployPlan[k].name
          /\ dk_log[k].kind = DeployPlan[k].kind
    /\ (DeployReturned /\ dk_result.kind = "err") => FailedSteps = {Len(dk_log)}

C23_Witness ==
    /\ DeployReturned
    /\ dk_result = Err(<< "create_kueue_cr: wait_for_deployment_to_exist" >>)
    /\ \E k \in DkAt("create_kueue_cr: apply_yaml") : dk_log[k].ok
    /\ \E k \in DkAt("install_bundle") : dk_log[k].ok
    /\ Len(dk_log) = Len(DeployPlan) - 3

\* The prerequisite checks of deploy_kind: the cluster, operator-sdk, the kubeconfig
\* file and the container runtime.
FatalChecks ==
    {"cluster.exists", "which operator-sdk", "kubeconfig_path.exists",
     "ContainerRuntime::detect"}

\* The steps of deploy_kind, up to the fan-out, that change the cluster.
ClusterMutations == {"uninstall_operator_if_exists", "kubectl delete lease"}

\* C24 (as stated): when a prerequisite check of deploy_kind fails, the run is aborted
\* before uninstall_operator_if_exists, the lease delete or any worker was started.
C24_FatalAbortsBeforeMutation ==
    \A k \in FailedSteps :
        dk_log[k].name \in FatalChecks =>
            \A j \in 1..Len(dk_log) :
                /\ dk_log[j].name \notin ClusterMutations
                /\ dk_log[j].kind # "spawn"

-----------------------------------------------------------------------------
(* Cluster lifecycle: cluster::create, cluster::delete (commands/cluster.rs), *)
(* deploy_kind_full (commands/deploy.rs) and KindCluster (k8s/kind.rs).       *)
(* kind, kubectl and the terminal prompt are the environment.                 *)

ClusterEntries ==
    {"cluster::create", "deploy_kind_full", "KindCluster::create", "cluster::delete"}

\* Words given as --cni: the two CniProvider::from_str accepts and one it rejects.
CniInputs == {"calico", "default", "cilium"}

\* CniProvider::from_str: only "calico" and "default" parse.
from_str(s) == s \in {"calico", "default"}

Panic(msg) == [kind |-> "panic", msg |-> msg]

\* One collaborator call: its name, whether it succeeded, and the value it
\* produced ("true"/"false" of exists, "yes"/"no" of confirm, "" otherwise).
ClCall(name, ok, val) == [name |-> name, ok |-> ok, val |-> val]

\* The caller's continuation once create_with_kubeconfig has returned ret:
\* cluster::create propagates Err with ? and unwraps the Option with expect,
\* deploy_kind_full propagates Err and turns None into an error,
\* KindCluster::create hands the result back unchanged.
AfterCreateNextPcAlways(entry, ret) ==
    IF entry = "KindCluster::create" THEN "done" ELSE "network"

AfterCreateNextPc(entry, ret) ==
    IF entry # "KindCluster::create" /\ ret = "Some" THEN "network" ELSE "done"

AfterCreateResult(entry, ret, err) ==
    CASE ret = "Err" -> Err(err)
      [] ret = "None" /\ entry = "cluster::create" ->
            Panic(<<"Kubeconfig should always be saved when path is provided">>)
      [] ret = "None" /\ entry = "deploy_kind_full" ->
            Err(<<"Kubeconfig was not saved. This should not happen in deploy_kind_full">>)
      [] ret = "Some" /\ entry # "KindCluster::create" -> NoResult
      [] OTHER -> OkResult

\* create_with_kubeconfig returns ret to the entry function.
CwkReturns(ret, err) ==
    /\ cwk_return' = ret
    /\ cl_pc' = AfterCreateNextPc(cl_entry, ret)
    /\ cl_result' = IF AfterCreateNextPc(cl_entry, ret) = "done"
                    THEN AfterCreateResult(cl_entry, ret, err)
                    ELSE NoResult

\* An error that leaves the entry function: inside create_with_kubeconfig it
\* first leaves that function with ?.
ClFails(err) ==
    IF cl_entry = "cluster::delete"
    THEN /\ cl_pc' = "done"
         /\ cl_result' = Err(err)
         /\ UNCHANGED cwk_return
    ELSE CwkReturns("Err", err)

\* cluster::create and deploy_kind_full up to the create_with_kubeconfig call.
cluster_prologue ==
    /\ UNCHANGED notClusterVars
    /\ cl_pc = "start"
    /\ \E dir_ok \in BOOLEAN :
        /\ cl_log' = Append(cl_log, ClCall("ensure_operator_source_directory", dir_ok, ""))
        /\ IF ~dir_ok
           THEN /\ cl_pc' = "done"
                /\ cl_result' = Err(<<"Not in operator source directory">>)
           ELSE IF ~from_str(cni)
           THEN /\ cl_pc' = "done"
                /\ cl_result' = Err(<<"Invalid CNI provider">>)
           ELSE IF cl_entry = "cluster::create" /\ ~kubeconfig
           THEN /\ cl_pc' = "done"
                /\ cl_result' = Err(<<"Kubeconfig path is required">>)
           ELSE /\ cl_pc' = "exists"
                /\ UNCHANGED cl_result
    /\ UNCHANGED <<cl_entry, cni, kind_config, kubeconfig, force, cluster_present, kubeconfig_file,
                   cwk_return>>

\* Where the caller of exists() goes with Ok(present).
ExistsNextPcAlwaysConfirm(entry, present, forced) ==
    IF entry = "cluster::delete"
    THEN IF ~present THEN "done" ELSE "confirm"
    ELSE IF present THEN "confirm" ELSE "create"

ExistsNextPc(entry, present, forced) ==
    IF entry = "cluster::delete"
    THEN IF ~present THEN "done" ELSE IF ~forced THEN "confirm" ELSE "delete"
    ELSE IF present THEN "confirm" ELSE "create"

\* KindCluster::exists, called with ? by create_with_kubeconfig and cluster::delete.
kind_exists ==
    /\ UNCHANGED notClusterVars
    /\ cl_pc = "exists"
    /\ \E ok \in BOOLEAN :
        /\ cl_log' = Append(cl_log,
               ClCall("exists", ok,
                      IF ~ok THEN "" ELSE IF cluster_present THEN "true" ELSE "false"))
        /\ IF ~ok
           THEN ClFails(<<"Failed to list kind clusters">>)
           ELSE /\ cl_pc' = ExistsNextPc(cl_entry, cluster_present, force)
                /\ cl_result' = IF ExistsNextPc(cl_entry, cluster_present, force) = "done"
                                THEN OkResult ELSE NoResult
                /\ UNCHANGED cwk_return
    /\ UNCHANGED <<cl_entry, cni, kind_config, kubeconfig, force, cluster_present, kubeconfig_file>>

\* Where the caller of confirm() goes with the answer.
ConfirmNextPcAlwaysDelete(entry, yes) == "delete"

ConfirmNextPc(entry, yes) ==
    IF yes THEN "delete"
    ELSE IF entry = "cluster::delete" THEN "done" ELSE "export"

\* utils::confirm, called with ? by create_with_kubeconfig and cluster::delete.
kind_confirm ==
    /\ UNCHANGED notClusterVars
    /\ cl_pc = "confirm"
    /\ \E answer \in {"yes", "no", "fail"} :
        /\ cl_log' = Append(cl_log,
               ClCall("confirm", answer # "fail", IF answer = "fail" THEN "" ELSE answer))
        /\ IF answer = "fail"
           THEN ClFails(<<"prompt failed">>)
           ELSE /\ cl_pc' = ConfirmNextPc(cl_entry, answer = "yes")
                /\ cl_result' = IF ConfirmNextPc(cl_entry, answer = "yes") = "done"
                                THEN OkResult ELSE NoResult
                /\ UNCHANGED cwk_return
    /\ UNCHANGED <<cl_entry, cni, kind_config, kubeconfig, force, cluster_present, kubeconfig_file>>

\* KindCluster::delete, called with ? by create_with_kubeconfig and cluster::delete.
kind_delete ==
    /\ UNCHANGED notClusterVars
    /\ cl_pc = "delete"
    /\ \E ok \in BOOLEAN :
        /\ cl_log' = Append(cl_log, ClCall("kind delete cluster", ok, ""))
        /\ IF ~ok
           THEN /\ ClFails(<<"Failed to delete kind cluster">>)
                /\ UNCHANGED cluster_present
           ELSE /\ cluster_present' = FALSE
                /\ cl_pc' = IF cl_entry = "cluster::delete" THEN "done" ELSE "create"
                /\ cl_result' = IF cl_entry = "cluster::delete" THEN OkResult ELSE NoResult
                /\ UNCHANGED cwk_return
    /\ UNCHANGED <<cl_entry, cni, kind_config, kubeconfig, force, kubeconfig_file>>

\* format!("{}", bool)
BoolDisplay(b) == IF b THEN "true" ELSE "false"

\* let disable_cni = matches!(self.cni_provider, CniProvider::Calico)
DisableCniAlways(provider) == TRUE

DisableCni(provider) == provider = "calico"

\* The kubeadmConfigPatches block both control-plane nodes carry.
KubeadmPatch ==
    << <<"  kubeadmConfigPatches:">>,
       <<"  - |">>,
       <<"    apiVersion: kubeadm.k8s.io/v1beta3">>,
       <<"    kind: ClusterConfiguration">>,
       <<"    apiServer:">>,
       <<"      extraArgs:">>,
       <<"        v: \"4\"">> >>

\* KindCluster::generate_config: the lines of the YAML, each line as the
\* pieces format! puts together.
generate_config(provider) ==
    << <<"kind: Cluster">>,
       <<"apiVersion: kind.x-k8s.io/v1alpha4">>,
       <<"networking:">>,
       <<"  disableDefaultCNI: ", BoolDisplay(DisableCni(provider))>>,
       <<"  podSubnet: \"10.244.0.0/16\"">>,
       <<"  serviceSubnet: \"10.96.0.0/16\"">>,
       <<"nodes:">>,
       <<"- role: control-plane">> >>
    \o KubeadmPatch
    \o << <<"- role: control-plane">> >>
    \o KubeadmPatch
    \o << <<"- role: worker">>,
          <<"- role: worker">> >>

\* create_with_kubeconfig: generate_config and kind create cluster --config -.
\* A failed creation may leave a partial cluster behind or not.
kind_create ==
    /\ UNCHANGED notClusterVars
    /\ cl_pc = "create"
    /\ kind_config' = generate_config(cni)
    /\ \E ok \in BOOLEAN :
        /\ cl_log' = Append(cl_log, ClCall("kind create cluster", ok, ""))
        /\ IF ~ok
           THEN /\ ClFails(<<"Failed to create kind cluster">>)
                /\ cluster_present' \in BOOLEAN
           ELSE /\ cluster_present' = TRUE
                /\ cl_pc' = "export"
                /\ UNCHANGED <<cl_result, cwk_return>>
    /\ UNCHANGED <<cl_entry, cni, kubeconfig, force, kubeconfig_file>>

\* if kubeconfig.is_some(): both on the new-cluster and the reuse path.
ShouldExportAlways(requested) == TRUE

ShouldExport(requested) == requested

\* The end of create_with_kubeconfig: export_kubeconfig_with_custom when a
\* path was given, Ok(None) otherwise.
export_kubeconfig ==
    /\ UNCHANGED notClusterVars
    /\ cl_pc = "export"
    /\ IF ShouldExport(kubeconfig)
       THEN \E ok \in BOOLEAN :
            /\ cl_log' = Append(cl_log, ClCall("export_kubeconfig_with_custom", ok, ""))
            /\ kubeconfig_file' = ok
            /\ CwkReturns(IF ok THEN "Some" ELSE "Err",
                          <<"Failed to get kubeconfig for cluster">>)
       ELSE /\ CwkReturns("None", <<>>)
            /\ UNCHANGED <<cl_log, kubeconfig_file>>
    /\ UNCHANGED <<cl_entry, cni, kind_config, kubeconfig, force, cluster_present>>

\* What follows create_with_kubeconfig: calico::install (which ends with the
\* nodes Ready wait) for Calico; for the default CNI cluster::create waits for
\* the nodes itself and deploy_kind_full does nothing.
NetworkStep(entry, c) ==
    IF c = "calico" THEN "calico::install"
    ELSE IF entry = "cluster::create" THEN "wait_for_condition nodes"
    ELSE "none"

install_network ==
    /\ UNCHANGED notClusterVars
    /\ cl_pc = "network"
    /\ IF NetworkStep(cl_entry, cni) = "none"
       THEN /\ cl_pc' = "label"
            /\ UNCHANGED <<cl_log, cl_result>>
       ELSE \E ok \in BOOLEAN :
            /\ cl_log' = Append(cl_log, ClCall(NetworkStep(cl_entry, cni), ok, ""))
            /\ cl_pc' = IF ok THEN "label" ELSE "done"
            /\ cl_result' = IF ok THEN NoResult
                            ELSE Err(<<"kubectl command failed">>)
    /\ UNCHANGED <<cl_entry, cni, kind_config, kubeconfig, force, cluster_present, kubeconfig_file,
                   cwk_return>>

\* nodes::label_worker_nodes(Some(&kubeconfig))?
label_worker_nodes ==
    /\ UNCHANGED notClusterVars
    /\ cl_pc = "label"
    /\ \E ok \in BOOLEAN :
        /\ cl_log' = Append(cl_log, ClCall("label_worker_nodes", ok, ""))
        /\ cl_pc' = IF ok /\ cl_entry = "deploy_kind_full" THEN "deploy_kind" ELSE "done"
        /\ cl_result' = IF ~ok THEN Err(<<"Failed to get nodes">>)
                        ELSE IF cl_entry = "deploy_kind_full" THEN NoResult
                        ELSE OkResult
    /\ UNCHANGED <<cl_entry, cni, kind_config, kubeconfig, force, cluster_present, kubeconfig_file,
                   cwk_return>>

\* deploy_kind_full: deploy_kind(DeployKindOptions { use_bundle: true, .. })?
deploy_kind_after_create ==
    /\ UNCHANGED notClusterVars
    /\ cl_pc = "deploy_kind"
    /\ \E ok \in BOOLEAN :
        /\ cl_log' = Append(cl_log, ClCall("deploy_kind", ok, ""))
        /\ cl_pc' = "done"
        /\ cl_result' = IF ok THEN OkResult ELSE Err(<<"deploy_kind failed">>)
    /\ UNCHANGED <<cl_entry, cni, kind_config, kubeconfig, force, cluster_present, kubeconfig_file,
                   cwk_return>>

\* The entry function is called on a machine where the cluster exists or not.
\* cluster::create has a kubeconfig path (flag or settings) or none,
\* deploy_kind_full always has one, KindCluster::create passes None.
ClusterInit ==
    /\ BundleIdle
    /\ InstallIdle
    /\ DeployIdle
    /\ BuildIdle
    /\ CrIdle
    /\ TestIdle
    /\ UninstallIdle
    /\ ImagesIdle
    /\ cl_entry \in ClusterEntries
    /\ cni \in CniInputs
    /\ cl_entry \in {"KindCluster::create", "cluster::delete"} => cni = "default"
    /\ kubeconfig \in BOOLEAN
    /\ cl_entry = "deploy_kind_full" => kubeconfig
    /\ cl_entry \in {"KindCluster::create", "cluster::delete"} => ~kubeconfig
    /\ force \in BOOLEAN
    /\ cl_entry # "cluster::delete" => ~force
    /\ cluster_present \in BOOLEAN
    /\ kubeconfig_file = FALSE
    /\ cl_pc = IF cl_entry \in {"cluster::create", "deploy_kind_full"}
               THEN "start" ELSE "exists"
    /\ cl_log = <<>>
    /\ cwk_return = "none"
    /\ kind_config = <<>>
    /\ cl_result = NoResult

ClusterNext ==
    \/ cluster_prologue
    \/ kind_exists
    \/ kind_confirm
    \/ kind_delete
    \/ kind_create
    \/ export_kubeconfig
    \/ install_network
    \/ label_worker_nodes
    \/ deploy_kind_after_create

SpecCluster == ClusterInit /\ [][ClusterNext]_vars

-----------------------------------------------------------------------------
(* Cluster lifecycle properties                                              *)

ClAt(k, name) == k \in 1..Len(cl_log) /\ cl_log[k].name = name

ClOk(k, name) == ClAt(k, name) /\ cl_log[k].ok

ClAnswered(k, name, val) == ClOk(k, name) /\ cl_log[k].val = val

\* Steps whose success means the nodes were seen Ready: calico::install ends
\* with the nodes wait, cluster::create waits directly for the default CNI.
NodesReadyWaits == {"calico::install", "wait_for_condition nodes"}

\* Steps that read the cluster's nodes or deploy onto them.
ClusterReads == {"label_worker_nodes", "deploy_kind"}

CreatesCluster == cl_entry \in {"cluster::create", "deploy_kind_full", "KindCluster::create"}

\* C25: in cluster::create and deploy_kind_full, for either CNI mode, worker
\* labeling and operator deployment start only after a nodes-Ready wait has
\* succeeded.
C25_NodesReadyBeforeClusterReads ==
    cl_entry \in {"cluster::create", "deploy_kind_full"} =>
        \A k \in 1..Len(cl_log) :
            cl_log[k].name \in ClusterReads =>
                \E j \in 1..(k - 1) :
                    cl_log[j].name \in NodesReadyWaits /\ cl_log[j].ok

\* C26 (as stated): with Calico selected the credentials export never happens
\* before the network install has completed.
C26_NetworkBeforeExport ==
    cni = "calico" =>
        \A k \in 1..Len(cl_log) :
            ClAt(k, "export_kubeconfig_with_custom") =>
                \E j \in 1..(k - 1) : ClOk(j, "calico::install")

\* C26 (amended): the cluster goes absent -> created (or reused) ->
\* credentials-exported -> network-ready: the export directly follows the
\* creation or the declined re-creation, calico::install starts only after the
\* export succeeded, and a Calico run that returns Ok went through all three.
C26_ExportBeforeNetwork ==
    cl_entry \in {"cluster::create", "deploy_kind_full"} =>
        /\ \A k \in 1..Len(cl_log) :
              ClAt(k, "export_kubeconfig_with_custom") =>
                  /\ \/ ClOk(k - 1, "kind create cluster")
                     \/ ClAnswered(k - 1, "confirm", "no")
                  /\ \A j \in 1..k : ~ClAt(j, "calico::install")
        /\ \A k \in 1..Len(cl_log) :
              cl_log[k].name \in NodesReadyWaits =>
                  /\ ClOk(k - 1, "export_kubeconfig_with_custom")
                  /\ cluster_present
                  /\ kubeconfig_file
        /\ (cl_result = OkResult /\ cni = "calico") =>
              \E k \in 1..Len(cl_log) :
                  ClOk(k, "export_kubeconfig_with_custom") /\ ClOk(k + 1, "calico::install")

C26_Witness ==
    /\ cl_entry = "cluster::create"
    /\ cni = "calico"
    /\ cl_result = OkResult
    /\ \E k \in 1..Len(cl_log) :
          /\ ClOk(k, "kind create cluster")
          /\ ClOk(k + 1, "export_kubeconfig_with_custom")
          /\ ClOk(k + 2, "calico::install")

\* C27: create_with_kubeconfig deletes an existing cluster only directly after
\* confirm answered yes to a cluster exists() found, and creates directly after
\* the delete succeeded (or after exists() found no cluster); when confirm
\* answers no, neither delete nor create is invoked and the cluster is kept.
C27_RecreateOnlyAfterYes ==
    CreatesCluster =>
        /\ \A k \in 1..Len(cl_log) :
              ClAt(k, "kind delete cluster") =>
                  /\ ClAnswered(k - 1, "confirm", "yes")
                  /\ ClAnswered(k - 2, "exists", "true")
                  /\ cl_log[k].ok =>
                        IF k = Len(cl_log) THEN cl_pc = "create"
                        ELSE ClAt(k + 1, "kind create cluster")
        /\ \A k \in 1..Len(cl_log) :
              ClAt(k, "kind create cluster") =>
                  \/ ClOk(k - 1, "kind delete cluster")
                  \/ ClAnswered(k - 1, "exists", "false")
        /\ \A k \in 1..Len(cl_log) :
              ClAnswered(k, "confirm", "no") =>
                  /\ \A j \in 1..Len(cl_log) :
                        ~ClAt(j, "kind delete cluster") /\ ~ClAt(j, "kind create cluster")
                  /\ cluster_present

C27_Witness ==
    /\ cl_entry = "cluster::create"
    /\ \E k \in 1..Len(cl_log) :
          /\ ClAnswered(k, "confirm", "yes")
          /\ ClOk(k + 1, "kind delete cluster")
          /\ ClOk(k + 2, "kind create cluster")

\* C28: create_with_kubeconfig exports the credentials and returns Some(path)
\* exactly when a path was requested and the export succeeded; with None it
\* never exports and returns Ok(None), after creating a cluster as well as
\* when the existing one is reused.
C28_ExportIffRequested ==
    CreatesCluster =>
        /\ cwk_return = "Some" <=>
              /\ kubeconfig
              /\ \E k \in 1..Len(cl_log) : ClOk(k, "export_kubeconfig_with_custom")
        /\ cwk_return = "Some" => kubeconfig_file
        /\ ~kubeconfig =>
              /\ \A k \in 1..Len(cl_log) : ~ClAt(k, "export_kubeconfig_with_custom")
              /\ ~kubeconfig_file
        /\ cwk_return = "None" <=>
              /\ ~kubeconfig
              /\ \/ ClOk(Len(cl_log), "kind create cluster")
                 \/ ClAnswered(Len(cl_log), "confirm", "no")
              /\ cl_pc = "done"
        /\ cwk_return = "None" => cl_result = OkResult

C28_Witness ==
    /\ cl_entry = "KindCluster::create"
    /\ ~kubeconfig
    /\ ClAnswered(Len(cl_log), "confirm", "no")
    /\ cwk_return = "None"
    /\ cl_result = OkResult

DeleteInvoked == \E k \in 1..Len(cl_log) : ClAt(k, "kind delete cluster")

Prompted == \E k \in 1..Len(cl_log) : ClAt(k, "confirm")

AnsweredYes == \E k \in 1..Len(cl_log) : ClAnswered(k, "confirm", "yes")

\* C29 (as stated): a cluster::delete that returned Ok has invoked the cluster
\* delete if and only if force is set or the prompt returned yes.
C29_DeleteIffForceOrYes ==
    (cl_entry = "cluster::delete" /\ cl_result = OkResult) =>
        (DeleteInvoked <=> (force \/ AnsweredYes))

\* C29 (amended): cluster::delete first asks exists(); when that found the
\* cluster, delete is invoked if and only if force is set or the prompt
\* returned yes, and with force no prompt is shown; when the cluster does not
\* exist it returns Ok with neither prompt nor delete.
C29_DeleteAfterExistsIffForceOrYes ==
    (cl_entry = "cluster::delete" /\ cl_pc = "done") =>
        /\ ClAnswered(1, "exists", "true") => (DeleteInvoked <=> (force \/ AnsweredYes))
        /\ ~ClAnswered(1, "exists", "true") => (~DeleteInvoked /\ ~Prompted)
        /\ ClAnswered(1, "exists", "false") => cl_result = OkResult
        /\ force => ~Prompted
        /\ DeleteInvoked => cluster_present = ~cl_log[Len(cl_log)].ok
        /\ (~DeleteInvoked /\ ClOk(1, "exists")) => cluster_present = (cl_log[1].val = "true")

C29_Witness ==
    /\ cl_entry = "cluster::delete"
    /\ force
    /\ ClAnswered(1, "exists", "true")
    /\ ClOk(2, "kind delete cluster")
    /\ cl_result = OkResult

-----------------------------------------------------------------------------
(* run_tests_with_retry (commands/test.rs): the manual retry loop.           *)

\* Executions of the e2e suite explored in one run_tests_with_retry call.
MaxTestRuns == 3

\* How one execute_ginkgo_tests call ends: ginkgo exits 0, exits non-zero, or
\* cannot be started.
GinkgoOutcomes == {"passed", "failed", "spawn_error"}

\* What stdin gives wait_for_enter: a line, end of input, or a read error.
StdinReads == {"line", "eof", "io_error"}

\* The arguments execute_ginkgo_tests passes to ginkgo (no skip patterns
\* configured).
GinkgoArgs(f, l) ==
    <<IF l THEN "--label-filter=<filter>" ELSE "--label-filter=!disruptive", "-v">>
    \o (IF f THEN <<"--focus", "<pattern>">> ELSE <<>>)
    \o <<"./test/e2e/...">>

\* get_project_root()? and the kubeconfig existence check.
run_tests_with_retry_start ==
    /\ UNCHANGED notTestVars
    /\ rt_pc = "start"
    /\ \E root_ok \in BOOLEAN, kc_exists \in BOOLEAN :
        IF ~root_ok
        THEN /\ rt_pc' = "done"
             /\ rt_result' = Err(<<"Failed to get project root">>)
        ELSE IF ~kc_exists
        THEN /\ rt_pc' = "done"
             /\ rt_result' = Err(<<"Kubeconfig not found. Please create cluster first.">>)
        ELSE /\ rt_pc' = "ensure_ginkgo"
             /\ UNCHANGED rt_result
    /\ UNCHANGED <<focus, label_filter, rt_kubeconfig, ginkgo_bin, rt_runs, rt_prompts, rt_reads>>

\* ensure_ginkgo(&project_root)?: uses bin/ginkgo when it exists, installs it
\* with go install otherwise.
ensure_ginkgo ==
    /\ UNCHANGED notTestVars
    /\ rt_pc = "ensure_ginkgo"
    /\ IF ginkgo_bin
       THEN /\ rt_pc' = "execute"
            /\ UNCHANGED <<ginkgo_bin, rt_result>>
       ELSE \E installed \in BOOLEAN :
            /\ ginkgo_bin' = installed
            /\ rt_pc' = IF installed THEN "execute" ELSE "done"
            /\ rt_result' = IF installed THEN NoResult
                            ELSE Err(<<"Failed to install ginkgo">>)
    /\ UNCHANGED <<focus, label_filter, rt_kubeconfig, rt_runs, rt_prompts, rt_reads>>

\* The match on the result of execute_ginkgo_tests: Ok breaks out of the loop,
\* Err goes to the prompt.
ExecuteNextPcReturn(out) == "done"

ExecuteNextPc(out) == IF out = "passed" THEN "done" ELSE "wait_for_enter"

\* One iteration of the loop up to the match: execute_ginkgo_tests.
execute_ginkgo_tests ==
    /\ UNCHANGED notTestVars
    /\ rt_pc = "execute"
    /\ Len(rt_runs) < MaxTestRuns
    /\ \E out \in GinkgoOutcomes :
        /\ rt_runs' = Append(rt_runs,
                             [args |-> GinkgoArgs(focus, label_filter), outcome |-> out])
        /\ rt_pc' = ExecuteNextPc(out)
        /\ rt_result' = IF ExecuteNextPc(out) = "done" THEN OkResult ELSE NoResult
    /\ UNCHANGED <<focus, label_filter, rt_kubeconfig, ginkgo_bin, rt_prompts, rt_reads>>

\* The Err arm: log the failure, wait_for_enter("")?, then loop. wait_for_enter
\* discards what lines.next() gave and always returns Ok(()).
wait_for_enter ==
    /\ UNCHANGED notTestVars
    /\ rt_pc = "wait_for_enter"
    /\ \E read \in StdinReads :
        /\ rt_prompts' = rt_prompts + 1
        /\ rt_reads' = Append(rt_reads, read)
        /\ rt_pc' = "execute"
    /\ UNCHANGED <<focus, label_filter, rt_kubeconfig, ginkgo_bin, rt_runs, rt_result>>

\* Ctrl+C while the suite runs or the prompt waits: the process ends without
\* run_tests_with_retry returning.
ctrl_c ==
    /\ UNCHANGED notTestVars
    /\ rt_pc \in {"execute", "wait_for_enter"}
    /\ rt_pc' = "killed"
    /\ UNCHANGED <<focus, label_filter, rt_kubeconfig, ginkgo_bin, rt_runs, rt_prompts,
                   rt_reads, rt_result>>

TestInit ==
    /\ BundleIdle
    /\ InstallIdle
    /\ DeployIdle
    /\ BuildIdle
    /\ CrIdle
    /\ ClusterIdle
    /\ UninstallIdle
    /\ ImagesIdle
    /\ focus \in BOOLEAN
    /\ label_filter \in BOOLEAN
    /\ rt_kubeconfig \in BOOLEAN
    /\ ginkgo_bin \in BOOLEAN
    /\ rt_pc = "start"
    /\ rt_runs = <<>>
    /\ rt_prompts = 0
    /\ rt_reads = <<>>
    /\ rt_result = NoResult

TestNext ==
    \/ run_tests_with_retry_start
    \/ ensure_ginkgo
    \/ execute_ginkgo_tests
    \/ wait_for_enter
    \/ ctrl_c

SpecTest == TestInit /\ [][TestNext]_vars

FailedRuns == {k \in 1..Len(rt_runs) : rt_runs[k].outcome # "passed"}

\* C30: once the loop is entered, run_tests_with_retry returns only Ok and only
\* directly after an execution of the suite that succeeded; after a failed
\* execution it prompts and runs the suite again instead of returning.
C30_ReturnsOnlyAfterPassedRun ==
    Len(rt_runs) >= 1 =>
        /\ rt_result.kind # "err"
        /\ rt_pc = "done" <=> rt_result = OkResult
        /\ rt_result = OkResult <=> rt_runs[Len(rt_runs)].outcome = "passed"
        /\ \A k \in FailedRuns :
              /\ k < Len(rt_runs) \/ rt_pc \in {"wait_for_enter", "execute", "killed"}
              /\ k < Len(rt_runs) => rt_prompts >= k
        /\ rt_prompts <= Cardinality(FailedRuns)

C30_Witness ==
    /\ rt_result = OkResult
    /\ Len(rt_runs) = 3
    /\ rt_runs[1].outcome = "failed"
    /\ rt_runs[2].outcome = "spawn_error"
    /\ rt_runs[3].outcome = "passed"
    /\ rt_prompts = 2

\* C31: every execution of the suite after the first is directly preceded by a
\* wait_for_enter call that received a line from the terminal (the manual
\* continue signal); the suite is never re-run without one.
C31_RerunOnlyAfterSignal ==
    /\ Len(rt_reads) = rt_prompts
    /\ \A k \in 2..Len(rt_runs) :
          /\ rt_runs[k - 1].outcome # "passed"
          /\ k - 1 <= Len(rt_reads)
          /\ rt_reads[k - 1] = "line"

-----------------------------------------------------------------------------
(* Apply modes                                                               *)

\* Installers whose manifests carry oversized CRDs.
OversizedCrdInstallers == {"jobset", "appwrapper", "training_operator", "olm", "prometheus"}

\* Installers of small manifests.
SmallManifestInstallers == {"cert_manager", "leaderworkerset"}

Applies == {k \in 1..Len(inst_log) : inst_log[k].op = "apply"}

-----------------------------------------------------------------------------
(* The generated kind config                                                 *)

ConfigLines(line) == {k \in 1..Len(kind_config) : kind_config[k] = line}

\* C33: the config handed to kind create cluster has disableDefaultCNI: true
\* exactly when the provider is Calico and false for Default, and for both
\* providers 2 control-plane and 2 worker nodes, pod subnet 10.244.0.0/16 and
\* service subnet 10.96.0.0/16.
C33_ConfigTopologyAndCni ==
    kind_config # <<>> =>
        /\ Cardinality(ConfigLines(<<"  disableDefaultCNI: ", "true">>)) =
              (IF cni = "calico" THEN 1 ELSE 0)
        /\ Cardinality(ConfigLines(<<"  disableDefaultCNI: ", "false">>)) =
              (IF cni = "default" THEN 1 ELSE 0)
        /\ cni \in {"calico", "default"}
        /\ Cardinality(ConfigLines(<<"- role: control-plane">>)) = 2
        /\ Cardinality(ConfigLines(<<"- role: worker">>)) = 2
        /\ Cardinality(ConfigLines(<<"  podSubnet: \"10.244.0.0/16\"">>)) = 1
        /\ Cardinality(ConfigLines(<<"  serviceSubnet: \"10.96.0.0/16\"">>)) = 1
        /\ \E k \in 1..Len(cl_log) : ClAt(k, "kind create cluster")

C33_Witness ==
    /\ cni = "default"
    /\ ClOk(Len(cl_log), "kind create cluster")
    /\ ConfigLines(<<"  disableDefaultCNI: ", "false">>) # {}

-----------------------------------------------------------------------------
(* Idempotency across calls                                                  *)

\* Installers that check a marker and return the error of every readiness wait.
StrictMarkerInstallers ==
    {"cert_manager", "jobset", "leaderworkerset", "appwrapper", "training_operator"}

\* C34: on a cluster that started empty, a call of a marker-checking installer
\* that follows a call of the same installer which applied the manifest returns
\* Ok only if this call saw every readiness condition of the dependency hold,
\* or the previous call did.
C34_OkOnlyAfterReadinessObserved ==
    /\ inst \in StrictMarkerInstallers
    /\ inst_result = OkResult
    /\ inst_prev.name = inst
    /\ inst_prev.applied
    => ReadinessObserved(inst_log, inst) \/ inst_prev.ready

-----------------------------------------------------------------------------
(* The retry gate of cleanup_and_retry                                       *)

\* Run-bundle invocations made by cleanup_and_retry in this call.
RetryAttempts == runBundleCalls - (IF firstOut = NoOutput THEN 0 ELSE 1)

\* C35: a cleanup that exited non-zero is warned about and followed by the settle
\* sleep and exactly one retry attempt; a cleanup that could not be executed
\* returns its error with no retry attempt; the retry command is only ever run
\* right after the settle sleep, which only follows an executed cleanup.
C35_RetryGatedOnCleanupExecuted ==
    /\ [](/\ RetryAttempts \in {0, 1}
          /\ RetryAttempts = 1 <=> retryOut # NoOutput
          /\ cleanupOut.status = "failure" =>
                /\ ib_warned
                /\ ib_pc \in {"settle", "retry", "show_status", "done"}
                /\ ib_pc \in {"show_status", "done"} => RetryAttempts = 1
          /\ cleanupOut.status = "spawnfail" =>
                /\ ib_pc = "done"
                /\ RetryAttempts = 0
                /\ ib_result = Err(<<"Failed to run operator-sdk cleanup">>)
          /\ RetryAttempts = 1 => Spawned(cleanupOut))
    /\ [][/\ ib_pc' = "retry" => ib_pc \in {"settle", "retry"}
          /\ ib_pc' = "settle" => (ib_pc = "cleanup" /\ Spawned(cleanupOut')) \/ ib_pc = "settle"
          /\ retryOut' # retryOut /\ retryOut' # NoOutput => ib_pc = "retry"]_vars

C35_Witness ==
    /\ cleanupOut.status = "failure"
    /\ retryOut.status = "success"
    /\ RetryAttempts = 1
    /\ ib_result = OkResult

-----------------------------------------------------------------------------
(* Termination of build_parallel                                             *)

\* The scheduler runs a thread that can take a step.
SpecBuildFair == SpecBuild /\ WF_vars(BuildNext)

\* Every build_and_push_component_with_progress call has returned Ok or Err.
AllBuildsReturned == \A k \in BuildWorkers : outcome[k] \notin {"none", "panic"}

\* C36: a worker holds the counter mutex only while it updates the counter and
\* never while it waits for the error-list mutex; as long as build_parallel has
\* not ended some thread can take a step; every run ends; and once every
\* component build has returned, every worker finishes, is joined, and
\* build_parallel returns.
C36_DeadlockFreeTerminates ==
    /\ [](/\ \A k \in BuildWorkers :
                /\ completed_lock = k => worker[k] \in {"read_count", "write_count"}
                /\ errors_lock = k =>
                      worker[k] \in {"push", "lock_completed", "read_count", "write_count"}
                /\ worker[k] = "lock_errors" => completed_lock # k
          /\ bp_pc # "done" => ENABLED BuildNext)
    /\ <>(bp_pc = "done")
    /\ AllBuildsReturned ~>
          /\ bp_pc = "done"
          /\ bp_result.kind \in {"ok", "err"}
          /\ \A k \in BuildWorkers : worker[k] = "finished"

C36_Witness ==
    /\ total = MaxComponents
    /\ bp_pc = "done"
    /\ bp_result.kind = "err"
    /\ Len(errors) >= 2
    /\ AllBuildsReturned

-----------------------------------------------------------------------------
(* uninstall_operator_if_exists and is_operator_installed (install/olm.rs)   *)

\* for i in 0..12
DeploymentChecks == 12

\* How operator-sdk cleanup can end: it cannot be executed, exits 0, exits non-zero.
CleanupStatuses == {"spawnfail", "success", "failure"}

\* is_operator_installed: the namespace must be found, then the deployment or
\* the catalog source.
is_operator_installed(ns, dep, cat) == IsOk(ns) /\ (IsOk(dep) \/ IsOk(cat))

\* if !is_operator_installed(kubeconfig) { return Ok(()) }
uninstall_detect ==
    /\ UNCHANGED notUninstallVars
    /\ un_pc = "detect"
    /\ \E ns_present \in BOOLEAN :
        /\ (op_deployment \/ op_catalog) => ns_present
        /\ \E ns \in GetResults(ns_present), dep \in GetResults(op_deployment),
              cat \in GetResults(op_catalog) :
            IF is_operator_installed(ns, dep, cat)
            THEN /\ un_detected' = "installed"
                 /\ un_pc' = "which"
                 /\ UNCHANGED un_result
            ELSE /\ un_detected' = "absent"
                 /\ un_pc' = "done"
                 /\ un_result' = OkResult
    /\ UNCHANGED <<op_deployment, op_catalog, sdk_on_path, un_cleanup, un_i, un_checks,
                   un_deletes>>

\* if which::which("operator-sdk").is_err() { warn; return Ok(()) }
uninstall_which ==
    /\ UNCHANGED notUninstallVars
    /\ un_pc = "which"
    /\ IF sdk_on_path
       THEN /\ un_pc' = "cleanup"
            /\ UNCHANGED un_result
       ELSE /\ un_pc' = "done"
            /\ un_result' = OkResult
    /\ UNCHANGED <<op_deployment, op_catalog, sdk_on_path, un_detected, un_cleanup, un_i,
                   un_checks, un_deletes>>

\* operator-sdk cleanup kueue-operator: only a command that cannot be executed
\* returns an error; a non-zero exit is logged.
uninstall_cleanup ==
    /\ UNCHANGED notUninstallVars
    /\ un_pc = "cleanup"
    /\ \E st \in CleanupStatuses :
        /\ un_cleanup' = st
        /\ IF st = "spawnfail"
           THEN /\ un_pc' = "done"
                /\ un_result' = Err(<<"Failed to run operator-sdk cleanup">>)
           ELSE /\ un_pc' = "settle"
                /\ UNCHANGED un_result
    /\ UNCHANGED <<op_deployment, op_catalog, sdk_on_path, un_detected, un_i, un_checks,
                   un_deletes>>

\* OLM removes the operator's resources after a cleanup was run; it may take any
\* time and may never happen.
olm_removes_operator ==
    /\ UNCHANGED notUninstallVars
    /\ un_cleanup \in {"success", "failure"}
    /\ un_pc \in {"settle", "check", "sleep"}
    /\ op_deployment \/ op_catalog
    /\ op_deployment' = FALSE
    /\ op_catalog' = FALSE
    /\ UNCHANGED <<sdk_on_path, un_pc, un_detected, un_cleanup, un_i, un_checks,
                   un_deletes, un_result>>

\* std::thread::sleep(5 s) before the verification loop.
uninstall_settle ==
    /\ UNCHANGED notUninstallVars
    /\ un_pc = "settle"
    /\ un_pc' = "check"
    /\ un_i' = 0
    /\ UNCHANGED <<op_deployment, op_catalog, sdk_on_path, un_detected, un_cleanup,
                   un_checks, un_deletes, un_result>>

\* The loop body after the get: break when the get is an Err, sleep and go on
\* while i < 11, leave the loop after the last iteration.
CheckNextPcNoBreak(r, i) ==
    IF i < DeploymentChecks - 1 THEN "sleep" ELSE "delete_namespace"

CheckNextPc(r, i) ==
    IF ~IsOk(r) THEN "delete_namespace"
    ELSE IF i < DeploymentChecks - 1 THEN "sleep"
    ELSE "delete_namespace"

\* kubectl get deployment openshift-kueue-operator inside the loop.
uninstall_check ==
    /\ UNCHANGED notUninstallVars
    /\ un_pc = "check"
    /\ \E r \in GetResults(op_deployment) :
        /\ un_checks' = Append(un_checks, r)
        /\ un_pc' = CheckNextPc(r, un_i)
    /\ UNCHANGED <<op_deployment, op_catalog, sdk_on_path, un_detected, un_cleanup, un_i,
                   un_deletes, un_result>>

\* std::thread::sleep(5 s) at the end of an iteration, then the next i.
uninstall_sleep ==
    /\ UNCHANGED notUninstallVars
    /\ un_pc = "sleep"
    /\ un_i' = un_i + 1
    /\ un_pc' = "check"
    /\ UNCHANGED <<op_deployment, op_catalog, sdk_on_path, un_detected, un_cleanup,
                   un_checks, un_deletes, un_result>>

\* kubectl delete namespace openshift-kueue-operator ... .ok()
uninstall_delete_namespace ==
    /\ UNCHANGED notUninstallVars
    /\ un_pc = "delete_namespace"
    /\ \E ok \in BOOLEAN :
        /\ un_deletes' = Append(un_deletes, [name |-> "namespace", ok |-> ok])
        /\ op_deployment' = IF ok THEN FALSE ELSE op_deployment
        /\ op_catalog' = IF ok THEN FALSE ELSE op_catalog
    /\ un_pc' = "delete_kueue"
    /\ UNCHANGED <<sdk_on_path, un_detected, un_cleanup, un_i, un_checks, un_result>>

\* kubectl delete kueue --all --all-namespaces ... .ok(), then Ok(()).
uninstall_delete_kueue ==
    /\ UNCHANGED notUninstallVars
    /\ un_pc = "delete_kueue"
    /\ \E ok \in BOOLEAN :
        un_deletes' = Append(un_deletes, [name |-> "kueue", ok |-> ok])
    /\ un_pc' = "done"
    /\ un_result' = OkResult
    /\ UNCHANGED <<op_deployment, op_catalog, sdk_on_path, un_detected, un_cleanup, un_i,
                   un_checks>>

\* uninstall_operator_if_exists is called on a cluster with or without the
\* operator, on a machine with or without operator-sdk.
UninstallInit ==
    /\ BundleIdle
    /\ InstallIdle
    /\ DeployIdle
    /\ BuildIdle
    /\ CrIdle
    /\ ClusterIdle
    /\ TestIdle
    /\ ImagesIdle
    /\ op_deployment \in BOOLEAN
    /\ op_catalog \in BOOLEAN
    /\ sdk_on_path \in BOOLEAN
    /\ un_pc = "detect"
    /\ un_detected = "none"
    /\ un_cleanup = "notrun"
    /\ un_i = 0
    /\ un_checks = <<>>
    /\ un_deletes = <<>>
    /\ un_result = NoResult

UninstallNext ==
    \/ uninstall_detect
    \/ uninstall_which
    \/ uninstall_cleanup
    \/ olm_removes_operator
    \/ uninstall_settle
    \/ uninstall_check
    \/ uninstall_sleep
    \/ uninstall_delete_namespace
    \/ uninstall_delete_kueue

SpecUninstall == UninstallInit /\ [][UninstallNext]_vars

DeleteNames == [k \in 1..Len(un_deletes) |-> un_deletes[k].name]

PollingOver == un_pc \in {"delete_namespace", "delete_kueue"} \/ un_deletes # <<>>

\* C37 (as stated): whenever an installation was detected,
\* uninstall_operator_if_exists returns Ok after having attempted the namespace
\* deletion and the Kueue CR deletion.
C37_AlwaysDeletesAndReturnsOk ==
    (un_detected = "installed" /\ un_pc = "done") =>
        /\ un_result = OkResult
        /\ DeleteNames = <<"namespace", "kueue">>

\* C37 (amended): with no installation detected it runs nothing and returns Ok;
\* with operator-sdk missing it runs nothing more and returns Ok; when the
\* cleanup command cannot be executed it returns that error without polling or
\* deleting; otherwise it makes at most 12 deployment checks, each one but the
\* last having found the deployment, stops at the first check that does not
\* find it, and after the polling, whatever the cleanup's exit status and
\* the last check, attempts the namespace and the Kueue CR deletion in that
\* order and returns Ok.
C37_UninstallPollsThenDeletes ==
    /\ un_detected = "absent" =>
          /\ un_pc = "done" /\ un_result = OkResult
          /\ un_cleanup = "notrun" /\ un_checks = <<>> /\ un_deletes = <<>>
    /\ (un_detected = "installed" /\ ~sdk_on_path /\ un_pc = "done") =>
          /\ un_result = OkResult
          /\ un_cleanup = "notrun" /\ un_checks = <<>> /\ un_deletes = <<>>
    /\ un_cleanup = "spawnfail" =>
          /\ un_pc = "done" /\ un_result.kind = "err"
          /\ un_checks = <<>> /\ un_deletes = <<>>
    /\ Len(un_checks) <= DeploymentChecks
    /\ \A k \in 1..(Len(un_checks) - 1) : IsOk(un_checks[k])
    /\ un_checks # <<>> => un_cleanup \in {"success", "failure"}
    /\ PollingOver =>
          /\ un_checks # <<>>
          /\ ~IsOk(un_checks[Len(un_checks)]) \/ Len(un_checks) = DeploymentChecks
    /\ (un_cleanup \in {"success", "failure"} /\ un_pc = "done") =>
          /\ un_result = OkResult
          /\ DeleteNames = <<"namespace", "kueue">>
    /\ un_result.kind = "err" => un_cleanup = "spawnfail"

C37_Witness ==
    /\ un_cleanup = "failure"
    /\ Len(un_checks) = DeploymentChecks
    /\ IsOk(un_checks[DeploymentChecks])
    /\ un_result = OkResult
    /\ DeleteNames = <<"namespace", "kueue">>

-----------------------------------------------------------------------------
(* The existence poller                                                      *)

\* wait_for_deployment_to_exist has returned to its caller.
ExistWaitReturned ==
    IF cr_entry = "create_kueue_cr"
    THEN \/ cr_pc = "wait_available"
         \/ cr_pc = "done" /\ "wait_for_deployment_to_exist" \in CrCalls
    ELSE cr_pc = "done"

\* C38: wait_for_deployment_to_exist returns only after at least one query, and
\* after exactly one when the budget is zero; a query that finds the Deployment
\* makes it return Ok at once; it returns the timeout error only right after a
\* query that did not find the Deployment, with the budget used up; and it
\* sleeps only while the budget has not expired.
C38_QueryFirstThenDeadline ==
    /\ ExistWaitReturned =>
          /\ queries >= 1
          /\ timeout_secs = 0 => queries = 1
          /\ last_get = "found" \/ ExistWaitTimedOut \/ cr_entry = "create_kueue_cr"
    /\ last_get = "found" =>
          /\ ExistWaitReturned
          /\ ~ExistWaitTimedOut
          /\ cr_entry = "wait_for_deployment_to_exist" => cr_result = OkResult
    /\ ExistWaitTimedOut =>
          /\ last_get \in {"notfound", "cmdfail"}
          /\ elapsed >= timeout_secs
    /\ cr_pc = "sleep" =>
          /\ elapsed < timeout_secs
          /\ last_get \in {"notfound", "cmdfail"}

C38_Witness ==
    /\ cr_entry = "wait_for_deployment_to_exist"
    /\ timeout_secs = 0
    /\ queries = 1
    /\ last_get = "notfound"
    /\ ExistWaitTimedOut

-----------------------------------------------------------------------------
(* load_images_to_kind                                                       *)

\* The names of the images vector, in its order.
images == <<"operator", "operand", "must-gather", "bundle", "workload">>

\* The images read from the configuration; the workload image comes from the
\* environment with a default.
ConfigImages == <<"operator", "operand", "must-gather", "bundle">>

ImageNames == {images[k] : k \in 1..Len(images)}

\* image exists: the command cannot be run, exits with success, or exits with
\* anything else.
ExistsOutcomes == {"spawnfail", "present", "absent"}

\* pull and kind load: a command that cannot be run and a non-zero exit are both
\* an error.
CommandOutcomes == {"ok", "fail"}

ImageCommand(cmd, name, r) == [cmd |-> cmd, image |-> name, outcome |-> r]

\* The four configuration lookups, each ending the call when the name is missing.
load_images_config ==
    /\ UNCHANGED notImagesVars
    /\ img_pc = "config"
    /\ IF cfg_missing = "none"
       THEN /\ img_pc' = "exists"
            /\ img_i' = 1
            /\ UNCHANGED img_result
       ELSE /\ img_pc' = "done"
            /\ img_result' = Err(<<"Image '", cfg_missing, "' not found in configuration">>)
            /\ UNCHANGED img_i
    /\ UNCHANGED <<cfg_missing, pull_if_missing, img_local, img_ensured, img_loaded,
                   img_log>>

AfterEnsuredLoadsAtOnce(i) == [pc |-> "load", i |-> i]

\* The position after ensure_image returned Ok for images[i]: the next image of
\* the first loop, or the first image of the second loop.
AfterEnsured(i) ==
    IF i < Len(images)
    THEN [pc |-> "exists", i |-> i + 1]
    ELSE [pc |-> "load", i |-> 1]

EnsureError(i) == Err(<<"Failed to ensure ", images[i], " image">>)

\* ensure_image up to its pull: image_exists, then Ok, the pull, or the error.
ensure_image_exists ==
    /\ UNCHANGED notImagesVars
    /\ img_pc = "exists"
    /\ \E r \in ExistsOutcomes :
        /\ r = "present" => images[img_i] \in img_local
        /\ img_log' = Append(img_log, ImageCommand("exists", images[img_i], r))
        /\ CASE r = "spawnfail" ->
                  /\ img_pc' = "done"
                  /\ img_result' = EnsureError(img_i)
                  /\ UNCHANGED <<img_i, img_ensured>>
             [] r = "present" ->
                  /\ img_pc' = AfterEnsured(img_i).pc
                  /\ img_i' = AfterEnsured(img_i).i
                  /\ img_ensured' = Append(img_ensured, images[img_i])
                  /\ UNCHANGED img_result
             [] r = "absent" /\ pull_if_missing ->
                  /\ img_pc' = "pull"
                  /\ UNCHANGED <<img_i, img_ensured, img_result>>
             [] r = "absent" /\ ~pull_if_missing ->
                  /\ img_pc' = "done"
                  /\ img_result' = EnsureError(img_i)
                  /\ UNCHANGED <<img_i, img_ensured>>
    /\ UNCHANGED <<cfg_missing, pull_if_missing, img_local, img_loaded>>

\* The pull of ensure_image.
ensure_image_pull ==
    /\ UNCHANGED notImagesVars
    /\ img_pc = "pull"
    /\ \E r \in CommandOutcomes :
        /\ img_log' = Append(img_log, ImageCommand("pull", images[img_i], r))
        /\ IF r = "ok"
           THEN /\ img_local' = img_local \cup {images[img_i]}
                /\ img_pc' = AfterEnsured(img_i).pc
                /\ img_i' = AfterEnsured(img_i).i
                /\ img_ensured' = Append(img_ensured, images[img_i])
                /\ UNCHANGED img_result
           ELSE /\ img_pc' = "done"
                /\ img_result' = EnsureError(img_i)
                /\ UNCHANGED <<img_local, img_i, img_ensured>>
    /\ UNCHANGED <<cfg_missing, pull_if_missing, img_loaded>>

\* One iteration of the second loop: kind load docker-image.
load_to_kind ==
    /\ UNCHANGED notImagesVars
    /\ img_pc = "load"
    /\ \E r \in CommandOutcomes :
        /\ img_log' = Append(img_log, ImageCommand("load", images[img_i], r))
        /\ IF r = "ok"
           THEN /\ img_loaded' = Append(img_loaded, images[img_i])
                /\ IF img_i < Len(images)
                   THEN /\ img_i' = img_i + 1
                        /\ UNCHANGED <<img_pc, img_result>>
                   ELSE /\ img_pc' = "done"
                        /\ img_result' = OkResult
                        /\ UNCHANGED img_i
           ELSE /\ img_pc' = "done"
                /\ img_result' = Err(<<"Failed to load ", images[img_i], " image to kind">>)
                /\ UNCHANGED <<img_i, img_loaded>>
    /\ UNCHANGED <<cfg_missing, pull_if_missing, img_local, img_ensured>>

\* load_images_to_kind is called with any configuration, any local registry and
\* either value of pull_if_missing.
ImagesInit ==
    /\ BundleIdle
    /\ InstallIdle
    /\ DeployIdle
    /\ BuildIdle
    /\ CrIdle
    /\ ClusterIdle
    /\ TestIdle
    /\ UninstallIdle
    /\ cfg_missing \in {"none"} \cup {ConfigImages[k] : k \in 1..Len(ConfigImages)}
    /\ pull_if_missing \in BOOLEAN
    /\ img_local \in SUBSET ImageNames
    /\ img_pc = "config"
    /\ img_i = 0
    /\ img_ensured = <<>>
    /\ img_loaded = <<>>
    /\ img_log = <<>>
    /\ img_result = NoResult

ImagesNext ==
    \/ load_images_config
    \/ ensure_image_exists
    \/ ensure_image_pull
    \/ load_to_kind

SpecImages == ImagesInit /\ [][ImagesNext]_vars

\* A command outcome after which the call returns the error.
Aborts(e) ==
    \/ e.outcome \in {"spawnfail", "fail"}
    \/ e.cmd = "exists" /\ e.outcome = "absent" /\ ~pull_if_missing

\* ensure_image returned Ok for an image: it was found, or it was pulled.
Verifies(e) ==
    \/ e.cmd = "exists" /\ e.outcome = "present"
    \/ e.cmd = "pull" /\ e.outcome = "ok"

\* The position of a name in the images vector.
ImageIndex(name) == CHOOSE k \in 1..Len(images) : images[k] = name

\* C39: a kind load is run only after all five images were ensured, each found
\* locally or pulled, a pull happening only when pulling is allowed and right
\* after the image was reported missing; the images are processed in the order
\* of the vector; a command that fails is the last command of the call, which
\* then returns an error; and Ok is returned only with all five loaded.
C39_VerifyAllThenLoad ==
    /\ \A k \in 1..Len(img_log) :
          /\ img_log[k].cmd = "load" =>
                /\ img_ensured = images
                /\ \A n \in ImageNames :
                      \E j \in 1..(k - 1) : img_log[j].image = n /\ Verifies(img_log[j])
                /\ \A j \in k..Len(img_log) : img_log[j].cmd = "load"
          /\ img_log[k].cmd = "pull" =>
                /\ pull_if_missing
                /\ k > 1
                /\ img_log[k - 1] = ImageCommand("exists", img_log[k].image, "absent")
          /\ Aborts(img_log[k]) =>
                /\ k = Len(img_log)
                /\ img_pc = "done"
                /\ img_result.kind = "err"
          /\ k > 1 /\ img_log[k].cmd = img_log[k - 1].cmd =>
                ImageIndex(img_log[k].image) = ImageIndex(img_log[k - 1].image) + 1
          /\ k > 1 /\ img_log[k].cmd = "exists" /\ img_log[k - 1].cmd = "pull" =>
                ImageIndex(img_log[k].image) = ImageIndex(img_log[k - 1].image) + 1
    /\ img_loaded # <<>> => img_ensured = images
    /\ img_result = OkResult => img_loaded = images
    /\ img_result.kind = "err" =>
          /\ img_pc = "done"
          /\ img_log = <<>> \/ Aborts(img_log[Len(img_log)])
          /\ img_log = <<>> => cfg_missing # "none"

C39_Witness ==
    /\ img_result.kind = "err"
    /\ Len(img_loaded) = 2
    /\ img_log[Len(img_log)] = ImageCommand("load", "must-gather", "fail")
    /\ \E k \in 1..Len(img_log) : img_log[k] = ImageCommand("pull", "bundle", "ok")

====
